---- MODULE Spec2Model ----
(***************************************************************************)
(* A model of oci-proxy: the content-addressed LRU blob cache              *)
(* (internal/pkg/proxy/cache/lru.go), the cache interceptor with its       *)
(* streaming tee and the auth interceptor                                  *)
(* (internal/pkg/proxy/middleware), composed by the pipeline, and the      *)
(* whitelist gate and routing director (internal/pkg/proxy/proxy.go).      *)
(*                                                                         *)
(* Twelve specifications share the variables:                              *)
(*   Spec      the cache's API, one call per step;                         *)
(*   SpecPipe  requests through the pipeline, and the tee of a blob miss;  *)
(*   SpecAuth  requests through the auth interceptor, with a clock;        *)
(*   SpecPersist  the cache's API with Persist and restarts;               *)
(*   SpecConc  goroutines calling the cache at the same time;              *)
(*   SpecRoute  an inbound request at the proxy handler;                   *)
(*   SpecLock  the cache's calls cut at their lock operations and file     *)
(*             operations, with the shutdown's Persist;                    *)
(*   SpecLin   the same calls without Clear, Stats and Persist;            *)
(*   SpecMgr   goroutines in CacheManager.GetCache;                        *)
(*   SpecLoad  a start-up over a persistence file with bad lines;          *)
(*   SpecTok   goroutines at the token cache at the same time;             *)
(*   SpecTee   the wrapped body of a blob miss, the pipe in steps, with    *)
(*             the scheduler's fairness.                                   *)
(***************************************************************************)
EXTENDS Integers, Sequences, FiniteSets, TLC

VARIABLES
    c,          \* the Cache struct (lru.go:37-52)
    files,      \* the cache directory: file name -> content
    ret,        \* what the last cache API call was and what it returned
    tokenCache, \* AuthMiddleware.tokenCache: cache key -> token, expiry
    now,        \* time.Now(), in seconds
    static,     \* whether the registry's settings hold a username
    rt,         \* the last request through the interceptors and its result
    tee,        \* the wrapped body of a blob miss and its background Put
    route,      \* an inbound request at the proxy handler and what became of it
    procs,      \* the goroutines calling the cache, each with its call's position
    mu,         \* who holds c.mu (writer, readers) and c.persistMu
    main,       \* where the main goroutine is, and Persist's snapshot
    cm          \* the CacheManager: its map, its lock and what GetCache returned

cacheVars == <<c, files>>
authVars == <<tokenCache, now, static>>
vars == <<c, files, ret, tokenCache, now, static, rt, tee, route, procs,
          mu, main, cm>>

----------------------------------------------------------------------------
(* Bounds of the model *)

\* cache_max_size of the configuration the model runs under, in bytes.
MaxSize == 2
\* No API call is made once a statistics counter has reached MaxCount.
MaxCount == 1

\* The blob bodies of the model: byte strings of 1 to 3 bytes, among them
\* proper prefixes of others and one longer than MaxSize.
Bodies == {<<"a">>, <<"b">>, <<"a","b">>, <<"a","b","a">>}

----------------------------------------------------------------------------
(* SHA-256, formatted "sha256:" + lowercase hex (lru.go:142).  The table     *)
(* holds the first eight hex digits of the real SHA-256 of each byte        *)
(* string; it is injective on the strings of the model, as SHA-256 is       *)
(* taken to be.                                                             *)

ActualDigest(b) ==
    CASE b = <<>>              -> "sha256:e3b0c442"
      [] b = <<"a">>           -> "sha256:ca978112"
      [] b = <<"b">>           -> "sha256:3e23e816"
      [] b = <<"a","a">>       -> "sha256:961b6dd3"
      [] b = <<"a","b">>       -> "sha256:fb8e20fc"
      [] b = <<"b","a">>       -> "sha256:970f519c"
      [] b = <<"b","b">>       -> "sha256:3b64db95"
      [] b = <<"a","a","a">>   -> "sha256:9834876d"
      [] b = <<"a","a","b">>   -> "sha256:38760eab"
      [] b = <<"a","b","a">>   -> "sha256:e124adcc"
      [] b = <<"a","b","b">>   -> "sha256:715edf8b"
      [] b = <<"b","a","a">>   -> "sha256:665edae6"
      [] b = <<"b","a","b">>   -> "sha256:ecdd9740"
      [] b = <<"b","b","a">>   -> "sha256:324e8d57"
      [] b = <<"b","b","b">>   -> "sha256:3e744b9d"

\* The digests a request can name: those of the bodies, and one of an
\* algorithm the verifier does not compute.
Keys == {ActualDigest(b) : b \in Bodies} \cup {"sha512:cf83e135"}

----------------------------------------------------------------------------
(* The cache directory *)

\* The temp file os.CreateTemp makes for a Put ("blob-*.tmp", lru.go:121).
TmpName == "blob-1.tmp"

FileExists(f, name) == name \in DOMAIN f
WriteFile(f, name, data) == (name :> data) @@ f
RemoveFile(f, name) == [n \in DOMAIN f \ {name} |-> f[n]]
\* os.Rename(tmpPath, finalPath): replaces finalPath atomically.
RenameFile(f, from, to) == RemoveFile(WriteFile(f, to, f[from]), from)

----------------------------------------------------------------------------
(* container/list, front = index 1 = most recently used *)

RemoveAt(l, i) == SubSeq(l, 1, i - 1) \o SubSeq(l, i + 1, Len(l))
MoveToFront(l, i) == <<l[i]>> \o RemoveAt(l, i)
PushFront(l, e) == <<e>> \o l

\* The list element the map holds for key: the one nearest the front.
ElementOf(l, key) ==
    CHOOSE i \in 1..Len(l) :
        l[i].Key = key /\ \A j \in 1..(i - 1) : l[j].Key # key

----------------------------------------------------------------------------
(* Cache (lru.go) *)

\* What each I/O step of Put can do: succeed, or fail at one place.
Faults == {"none", "create", "write", "sync", "rename"}

Nil == "nil"

\* NewLRUCache on a directory without a persistence file: load returns at
\* lru.go:306-308 and the cache starts empty.
NewLRUCache(maxSize, cacheDir) ==
    [maxSize |-> maxSize, cacheDir |-> cacheDir,
     ll |-> <<>>, cache |-> {}, size |-> 0,
     hits |-> 0, misses |-> 0, evictions |-> 0,
     persistDirty |-> FALSE]

\* removeElementLocked without the update of the size counter.
removeElementLocked_KeepsSize(cc, i) ==
    [cc EXCEPT !.ll = RemoveAt(cc.ll, i),
               !.cache = cc.cache \ {cc.ll[i].Key}]

removeElementLocked(cc, i) ==
    [cc EXCEPT !.ll = RemoveAt(cc.ll, i),
               !.cache = cc.cache \ {cc.ll[i].Key},
               !.size = cc.size - cc.ll[i].Size]

deleteFiles(f, entries) ==
    [n \in DOMAIN f \ {entries[i].Key : i \in 1..Len(entries)} |-> f[n]]

\* The loop of evictIfNeeded taking its victims from the front of the list.
RECURSIVE evictLoop_FromFront(_, _)
evictLoop_FromFront(cc, toEvict) ==
    IF cc.size > cc.maxSize /\ Len(cc.ll) > 0
    THEN evictLoop_FromFront([removeElementLocked(cc, 1)
                                 EXCEPT !.evictions = @ + 1],
                             Append(toEvict, cc.ll[1]))
    ELSE [c |-> cc, toEvict |-> toEvict]

\* The loop of evictIfNeeded (lru.go:188-197).
RECURSIVE evictLoop(_, _)
evictLoop(cc, toEvict) ==
    IF cc.size > cc.maxSize /\ Len(cc.ll) > 0
    THEN evictLoop([removeElementLocked(cc, Len(cc.ll))
                       EXCEPT !.evictions = @ + 1],
                   Append(toEvict, cc.ll[Len(cc.ll)]))
    ELSE [c |-> cc, toEvict |-> toEvict]

\* evictIfNeeded, with the file deletion it does between Unlock and Lock.
evictIfNeeded(cc, f) ==
    IF cc.maxSize <= 0
    THEN [c |-> cc, files |-> f]
    ELSE LET r == evictLoop(cc, <<>>)
         IN  [c |-> r.c,
              files |-> IF Len(r.toEvict) > 0 THEN deleteFiles(f, r.toEvict) ELSE f]

\* GetReader leaving the entry in the index when the file cannot be opened.
GetReader_NoHeal(cc, f, key) ==
    IF key \notin cc.cache
    THEN [c |-> [cc EXCEPT !.misses = @ + 1],
          reader |-> <<>>, size |-> 0, ok |-> FALSE]
    ELSE LET i  == ElementOf(cc.ll, key)
             c1 == [cc EXCEPT !.ll = MoveToFront(cc.ll, i)]
         IN  IF ~FileExists(f, key)
             THEN [c |-> [c1 EXCEPT !.misses = @ + 1],
                   reader |-> <<>>, size |-> 0, ok |-> FALSE]
             ELSE [c |-> [c1 EXCEPT !.hits = @ + 1, !.persistDirty = TRUE],
                   reader |-> f[key], size |-> cc.ll[i].Size, ok |-> TRUE]

GetReader(cc, f, key) ==
    IF key \notin cc.cache
    THEN [c |-> [cc EXCEPT !.misses = @ + 1],
          reader |-> <<>>, size |-> 0, ok |-> FALSE]
    ELSE LET i  == ElementOf(cc.ll, key)
             c1 == [cc EXCEPT !.ll = MoveToFront(cc.ll, i)]
         IN  IF ~FileExists(f, key)
             THEN LET c2 == IF key \in c1.cache
                            THEN removeElementLocked(c1, ElementOf(c1.ll, key))
                            ELSE c1
                  IN  [c |-> [c2 EXCEPT !.misses = @ + 1],
                       reader |-> <<>>, size |-> 0, ok |-> FALSE]
             ELSE [c |-> [c1 EXCEPT !.hits = @ + 1, !.persistDirty = TRUE],
                   reader |-> f[key], size |-> cc.ll[i].Size, ok |-> TRUE]

\* PutCleanup without the deferred os.Remove: the temp file stays behind.
PutCleanup_KeepsTemp(f) == f

\* The deferred tmpFile.Close(); os.Remove(tmpPath) of Put (lru.go:127-130).
PutCleanup(f) == RemoveFile(f, TmpName)

\* The update or insertion of the entry by Put (lru.go:160-176).
PutInsert(cc, key, size) ==
    IF key \in cc.cache
    THEN LET i == ElementOf(cc.ll, key)
             l == MoveToFront(cc.ll, i)
         IN  [cc EXCEPT !.ll = <<[l[1] EXCEPT !.Size = size]>> \o Tail(l),
                        !.size = cc.size + (size - cc.ll[i].Size)]
    ELSE [cc EXCEPT !.ll = PushFront(cc.ll, [Key |-> key, Size |-> size]),
                    !.cache = cc.cache \cup {key},
                    !.size = cc.size + size]

\* The index update of Put under the lock (lru.go:157-181).
PutIndex(cc, f, key, size) ==
    LET r == evictIfNeeded(PutInsert(cc, key, size), f)
    IN  [c |-> [r.c EXCEPT !.persistDirty = TRUE], files |-> r.files]

\* PutTail without the comparison of the digests (lru.go:142-145).
PutTail_NoVerify(cc, f, key, expectedDigest, fault) ==
    LET size == Len(f[TmpName])
    IN  IF fault = "sync"
        THEN [c |-> cc, files |-> PutCleanup(f), err |-> "failed to sync temp file"]
        ELSE IF cc.maxSize > 0 /\ size > cc.maxSize
        THEN [c |-> cc, files |-> PutCleanup(f), err |-> Nil]
        ELSE IF fault = "rename"
        THEN [c |-> cc, files |-> PutCleanup(f), err |-> "failed to move cached file"]
        ELSE LET r == PutIndex(cc, RenameFile(f, TmpName, key), key, size)
             IN  [c |-> r.c, files |-> PutCleanup(r.files), err |-> Nil]

\* Put from the end of io.Copy on (lru.go:138-181): the temp file holds the
\* bytes read, which are also the bytes hashed.
PutTail(cc, f, key, expectedDigest, fault) ==
    LET data == f[TmpName]
        size == Len(data)
    IN  IF fault = "sync"
        THEN [c |-> cc, files |-> PutCleanup(f), err |-> "failed to sync temp file"]
        ELSE IF ActualDigest(data) # expectedDigest
        THEN [c |-> cc, files |-> PutCleanup(f), err |-> "digest mismatch"]
        ELSE IF cc.maxSize > 0 /\ size > cc.maxSize
        THEN [c |-> cc, files |-> PutCleanup(f), err |-> Nil]
        ELSE IF fault = "rename"
        THEN [c |-> cc, files |-> PutCleanup(f), err |-> "failed to move cached file"]
        ELSE LET r == PutIndex(cc, RenameFile(f, TmpName, key), key, size)
             IN  [c |-> r.c, files |-> PutCleanup(r.files), err |-> Nil]

\* Put of a reader that yields data and then EOF.  A write fault leaves
\* the temp file short; it is removed either way.
Put(cc, f, key, data, expectedDigest, fault) ==
    IF cc.cacheDir = ""
    THEN [c |-> cc, files |-> f, err |-> Nil]
    ELSE IF fault = "create"
    THEN [c |-> cc, files |-> f, err |-> "failed to create temp file"]
    ELSE IF fault = "write"
    THEN [c |-> cc, files |-> PutCleanup(WriteFile(f, TmpName, <<>>)),
          err |-> "failed to write to temp file"]
    ELSE PutTail(cc, WriteFile(f, TmpName, data), key, expectedDigest, fault)

Remove(cc, f, key) ==
    IF key \in cc.cache
    THEN [c |-> [removeElementLocked(cc, ElementOf(cc.ll, key))
                    EXCEPT !.persistDirty = TRUE],
          files |-> RemoveFile(f, key)]
    ELSE [c |-> cc, files |-> f]

Clear(cc, f) ==
    [c |-> [cc EXCEPT !.ll = <<>>, !.cache = {}, !.size = 0,
                      !.persistDirty = TRUE],
     files |-> [n \in DOMAIN f \ cc.cache |-> f[n]]]

\* The sum of the sizes of the entries of a list.
RECURSIVE SumSizes(_)
SumSizes(l) == IF l = <<>> THEN 0 ELSE Head(l).Size + SumSizes(Tail(l))

Stats(cc) ==
    [Hits |-> cc.hits, Misses |-> cc.misses, Evictions |-> cc.evictions,
     Items |-> Len(cc.ll), CurrentSize |-> cc.size, MaxSize |-> cc.maxSize]

\* The persistence file of a cache directory (lru.go:75-80) and the temp
\* file Persist writes first (".lru_persistence.*.tmp", lru.go:259).
PersistenceName == ".lru_persistence"
PersistTmpName == ".lru_persistence.1.tmp"

\* json.Encoder.Encode of an entry: one line with the key and the size
\* (last_access, which the model's entries leave out, is a third field).
EncodeEntry(e) == <<"key", e.Key, "size", e.Size>>

\* The entries in the list's order, front first.
BackToFront_FrontFirst(l) == l

\* The entries from the back of the list to the front (lru.go:253-256).
RECURSIVE BackToFront(_)
BackToFront(l) ==
    IF l = <<>> THEN <<>> ELSE <<l[Len(l)]>> \o BackToFront(SubSeq(l, 1, Len(l) - 1))

\* Persist once the dirty flag is found set and the path is not empty
\* (lru.go:252-295).  The deferred os.Remove(tmpPath) removes the temp file
\* on every return after its creation; after the rename there is no file of
\* that name left to remove.
PersistWrite(cc, f, fault) ==
    LET entries == BackToFront(cc.ll)
        lines == [i \in 1..Len(entries) |-> EncodeEntry(entries[i])]
        tmp == WriteFile(f, PersistTmpName, <<>>)
        written == WriteFile(f, PersistTmpName, lines)
    IN  IF fault = "create"
        THEN [c |-> cc, files |-> f, err |-> "failed to create temp persistence file"]
        ELSE IF fault = "encode"
        THEN [c |-> cc, files |-> RemoveFile(tmp, PersistTmpName),
              err |-> "failed to encode entry"]
        ELSE IF fault = "flush"
        THEN [c |-> cc, files |-> RemoveFile(tmp, PersistTmpName),
              err |-> "failed to flush writer"]
        ELSE IF fault = "sync"
        THEN [c |-> cc, files |-> RemoveFile(written, PersistTmpName),
              err |-> "failed to sync temp file"]
        ELSE IF fault = "rename"
        THEN [c |-> cc, files |-> RemoveFile(written, PersistTmpName),
              err |-> "failed to rename persistence file"]
        ELSE [c |-> [cc EXCEPT !.persistDirty = FALSE],
              files |-> RenameFile(written, PersistTmpName, PersistenceName),
              err |-> Nil]

\* Persist without the test of the dirty flag (lru.go:240-242).
Persist_NoDirtyTest(cc, f, fault) ==
    IF cc.cacheDir = ""
    THEN [c |-> cc, files |-> f, err |-> Nil]
    ELSE PersistWrite(cc, f, fault)

Persist(cc, f, fault) ==
    IF ~cc.persistDirty
    THEN [c |-> cc, files |-> f, err |-> Nil]
    ELSE IF cc.cacheDir = ""
    THEN [c |-> cc, files |-> f, err |-> Nil]
    ELSE PersistWrite(cc, f, fault)

\* The scan of load (lru.go:317-349) over the lines from the i-th on.  A
\* line is an encoded entry, or <<"garbage">>, which json.Unmarshal
\* rejects, or <<"too long">>, a line of more than bufio.MaxScanTokenSize
\* bytes, at which Scan stops and Err returns bufio.ErrTooLong.  A line
\* that does not decode is skipped, an entry whose file is missing is
\* skipped, one whose file has another size is skipped and the file
\* removed.
RECURSIVE loadScan(_, _, _, _)
loadScan(lines, i, f, validEntries) ==
    IF i > Len(lines)
    THEN [files |-> f, validEntries |-> validEntries, err |-> Nil]
    ELSE IF lines[i] = <<"too long">>
    THEN [files |-> f, validEntries |-> validEntries,
          err |-> "failed to scan persistence file"]
    ELSE IF lines[i] = <<"garbage">>
    THEN loadScan(lines, i + 1, f, validEntries)
    ELSE LET e == [Key |-> lines[i][2], Size |-> lines[i][4]]  \* json.Unmarshal
         IN  IF ~FileExists(f, e.Key)
             THEN loadScan(lines, i + 1, f, validEntries)
             ELSE IF Len(f[e.Key]) # e.Size
             THEN loadScan(lines, i + 1, RemoveFile(f, e.Key), validEntries)
             ELSE loadScan(lines, i + 1, f, Append(validEntries, e))

\* The loop of load under the lock (lru.go:351-359).
RECURSIVE loadInsert(_, _)
loadInsert(cc, validEntries) ==
    IF validEntries = <<>> THEN cc
    ELSE loadInsert([cc EXCEPT !.ll = PushFront(cc.ll, Head(validEntries)),
                               !.cache = cc.cache \cup {Head(validEntries).Key},
                               !.size = cc.size + Head(validEntries).Size],
                    Tail(validEntries))

load(cc, f) ==
    IF cc.cacheDir = "" \/ ~FileExists(f, PersistenceName)
    THEN [c |-> cc, files |-> f]
    ELSE LET r == loadScan(f[PersistenceName], 1, f, <<>>)
         IN  IF r.err # Nil
             THEN [c |-> cc, files |-> r.files]
             ELSE [c |-> loadInsert(cc, r.validEntries), files |-> r.files]

----------------------------------------------------------------------------
(* Requests and responses *)

\* req.URL.Host of the requests of the model: one upstream registry.
Host == "registry-1.docker.io"

\* A request URL path is modelled by strings.Split(strings.Trim(path, "/"),
\* "/"), the segments every function below works on.
BlobPath(digest) == <<"v2", "library", "alpine", "blobs", digest>>
ManifestPath == <<"v2", "library", "alpine", "manifests", "latest">>
UpperManifestPath == <<"v2", "Library", "Alpine", "manifests", "latest">>
TagsPath == <<"v2", "library", "alpine", "tags", "list">>
ShortBlobPath(digest) == <<"v2", "blobs", digest>>
RootPath == <<"v2">>

NoAuthorization == <<>>

Request(method, path) ==
    [Method |-> method, Path |-> path, Host |-> Host,
     Authorization |-> NoAuthorization]

\* A Www-Authenticate header value: the scheme as written and the
\* comma-separated name=value parameters as written; every value is a
\* sequence of the strings it is made of.  NoHeader is the absent header.
NoHeader == [scheme |-> "", params |-> <<>>]

\* "repository:<repo>:pull"
Scope(repo) == <<"repository">> \o repo \o <<"pull">>
NoScope == <<>>

\* strings.ToLower on the strings of the model.
ToLower(str) ==
    CASE str = "Bearer"  -> "bearer"
      [] str = "BEARER"  -> "bearer"
      [] str = "Basic"   -> "basic"
      [] str = "Realm"   -> "realm"
      [] str = "Scope"   -> "scope"
      [] str = "Library" -> "library"
      [] str = "Alpine"  -> "alpine"
      [] str = "https://Auth.docker.io/token" -> "https://auth.docker.io/token"
      [] OTHER -> str

ToLowerAll(value) == [i \in 1..Len(value) |-> ToLower(value[i])]

StatusOK == 200
StatusUnauthorized == 401
StatusForbidden == 403

\* A response: id names the call that made it (0 the cache interceptor,
\* 1 the first upstream call, 2 the retried one); body says whether the
\* response's body is the upstream's, a cache file or the tee.
NoResp == [id |-> -1, StatusCode |-> 0, Www |-> NoHeader, ContentLength |-> -1,
           body |-> "none", bodyClosed |-> FALSE]

UpstreamResp(id, up) ==
    [id |-> id, StatusCode |-> up.StatusCode, Www |-> up.Www,
     ContentLength |-> -1, body |-> "upstream", bodyClosed |-> FALSE]

----------------------------------------------------------------------------
(* AuthMiddleware (middleware_auth.go) *)

DefaultExpiresIn == 60


\* strings.Join(parts, "/") = ""
JoinIsEmpty(parts) == Len(parts) = 0 \/ (Len(parts) = 1 /\ parts[1] = "")

getScopeFromRequest(req) ==
    LET parts == req.Path
    IN  IF Len(parts) >= 3 /\ parts[1] = "v2"
        THEN LET repo == SubSeq(parts, 2, Len(parts) - 2)
                 lastPart == parts[Len(parts) - 1]
             IN  IF ~JoinIsEmpty(repo) /\ lastPart \in {"manifests", "blobs"}
                 THEN Scope(repo)
                 ELSE NoScope
        ELSE NoScope

\* strings.HasPrefix(strings.ToLower(authHeader), "bearer "): the scheme,
\* lowercased, followed by a space, which a header with parameters has.
HasBearerPrefix(header) ==
    ToLower(header.scheme) = "bearer" /\ Len(header.params) > 0

\* The header is lowercased as a whole, so names and values are; a later
\* parameter of the same name overwrites an earlier one.
RECURSIVE parseParams(_, _)
parseParams(params, acc) ==
    IF params = <<>> THEN acc
    ELSE parseParams(Tail(params),
                     (ToLower(params[1][1]) :> ToLowerAll(params[1][2])) @@ acc)

parseAuthHeader(header) == parseParams(header.params, <<>>)

\* params[name] of a Go map: the zero value "" when absent.
Param(params, name) == IF name \in DOMAIN params THEN params[name] ELSE <<>>

\* getAnonymousToken, given what the GET of the token endpoint yields.
getAnonymousToken(tok) ==
    IF tok.kind \in {"unreachable", "status", "malformed"}
    THEN [token |-> "", expiresIn |-> 0, err |-> tok.kind]
    ELSE IF tok.Token # ""
    THEN [token |-> tok.Token, expiresIn |-> tok.ExpiresIn, err |-> Nil]
    ELSE IF tok.AccessToken # ""
    THEN [token |-> tok.AccessToken, expiresIn |-> tok.ExpiresIn, err |-> Nil]
    ELSE [token |-> "", expiresIn |-> 0, err |-> "token not found in response"]

CacheKey(host, scope) == <<host, scope>>

Bearer(token) == <<"Bearer", token>>
BasicAuthorization == <<"Basic", "dXNlcjpwYXNz">>

\* tryApplyCachedToken that looks the token up under the host alone.
tryApplyCachedToken_HostKey(tc, t, req) ==
    LET scope == getScopeFromRequest(req)
        cacheKey == CacheKey(req.Host, NoScope)
    IN  IF scope = NoScope THEN [req |-> req, tokenCache |-> tc]
        ELSE IF cacheKey \notin DOMAIN tc THEN [req |-> req, tokenCache |-> tc]
        ELSE IF t > tc[cacheKey].expiresAt
        THEN [req |-> req,
              tokenCache |-> [k \in DOMAIN tc \ {cacheKey} |-> tc[k]]]
        ELSE [req |-> [req EXCEPT !.Authorization = Bearer(tc[cacheKey].token)],
              tokenCache |-> tc]

\* tryApplyCachedToken that never finds an entry expired.
tryApplyCachedToken_NoExpiry(tc, t, req) ==
    LET scope == getScopeFromRequest(req)
        cacheKey == CacheKey(req.Host, scope)
    IN  IF scope = NoScope THEN [req |-> req, tokenCache |-> tc]
        ELSE IF cacheKey \notin DOMAIN tc THEN [req |-> req, tokenCache |-> tc]
        ELSE [req |-> [req EXCEPT !.Authorization = Bearer(tc[cacheKey].token)],
              tokenCache |-> tc]

tryApplyCachedToken(tc, t, req) ==
    LET scope == getScopeFromRequest(req)
        cacheKey == CacheKey(req.Host, scope)
    IN  IF scope = NoScope THEN [req |-> req, tokenCache |-> tc]
        ELSE IF cacheKey \notin DOMAIN tc THEN [req |-> req, tokenCache |-> tc]
        ELSE IF t > tc[cacheKey].expiresAt
        THEN [req |-> req,
              tokenCache |-> [k \in DOMAIN tc \ {cacheKey} |-> tc[k]]]
        ELSE [req |-> [req EXCEPT !.Authorization = Bearer(tc[cacheKey].token)],
              tokenCache |-> tc]

applyAuth(tc, t, st, req) ==
    IF st
    THEN [req |-> [req EXCEPT !.Authorization = BasicAuthorization],
          tokenCache |-> tc]
    ELSE tryApplyCachedToken(tc, t, req)

\* The executor's answer to one call: an error or a response.
IsErr(up) == up.kind = "err"

\* What next returned for one call: a response or an error.
Returned(id, up) ==
    [resp |-> IF IsErr(up) THEN NoResp ELSE UpstreamResp(id, up),
     err |-> IF IsErr(up) THEN up.err ELSE Nil]

\* fetchTokenAndRetry that retries the request as it was.
fetchTokenAndRetry_NoBearer(tc, t, req, origResp, tok, up2) ==
    LET params == parseAuthHeader(origResp.Www)
        failed == [resp |-> NoResp, err |-> "missing realm in Www-Authenticate header", tokenCache |-> tc,
                   sent |-> <<>>, got |-> <<>>, tokenCalls |-> 0,
                   origClosed |-> FALSE]
    IN  IF "realm" \notin DOMAIN params
        THEN failed
        ELSE LET r == getAnonymousToken(tok)
             IN  IF r.err # Nil
                 THEN [failed EXCEPT !.err = "failed to get anonymous token", !.tokenCalls = 1]
                 ELSE LET expiresIn == IF r.expiresIn = 0 THEN DefaultExpiresIn
                                       ELSE r.expiresIn
                          cacheKey == CacheKey(req.Host, Param(params, "scope"))
                          entry == [token |-> r.token, expiresAt |-> t + expiresIn]
                          retryReq == req
                      IN  [resp |-> Returned(2, up2).resp,
                           err |-> Returned(2, up2).err,
                           tokenCache |-> (cacheKey :> entry) @@ tc,
                           sent |-> <<retryReq>>, got |-> <<Returned(2, up2)>>,
                           tokenCalls |-> 1, origClosed |-> TRUE]

\* fetchTokenAndRetry, given the token endpoint's answer and the upstream's
\* answer to the retried request.  sent holds the requests passed to next,
\* got what next returned for each, origClosed whether the body of the
\* original response has been closed.
fetchTokenAndRetry(tc, t, req, origResp, tok, up2) ==
    LET params == parseAuthHeader(origResp.Www)
        failed == [resp |-> NoResp, err |-> "missing realm in Www-Authenticate header", tokenCache |-> tc,
                   sent |-> <<>>, got |-> <<>>, tokenCalls |-> 0,
                   origClosed |-> FALSE]
    IN  IF "realm" \notin DOMAIN params
        THEN failed
        ELSE LET r == getAnonymousToken(tok)
             IN  IF r.err # Nil
                 THEN [failed EXCEPT !.err = "failed to get anonymous token", !.tokenCalls = 1]
                 ELSE LET expiresIn == IF r.expiresIn = 0 THEN DefaultExpiresIn
                                       ELSE r.expiresIn
                          cacheKey == CacheKey(req.Host, Param(params, "scope"))
                          entry == [token |-> r.token, expiresAt |-> t + expiresIn]
                          retryReq == [req EXCEPT !.Authorization = Bearer(r.token)]
                      IN  [resp |-> Returned(2, up2).resp,
                           err |-> Returned(2, up2).err,
                           tokenCache |-> (cacheKey :> entry) @@ tc,
                           sent |-> <<retryReq>>, got |-> <<Returned(2, up2)>>,
                           tokenCalls |-> 1, origClosed |-> TRUE]

\* handleAuthChallenge that returns the error of fetchTokenAndRetry.
handleAuthChallenge_ReturnsError(tc, t, req, resp, tok, up2) ==
    LET asIs == [resp |-> resp, err |-> Nil, tokenCache |-> tc,
                 sent |-> <<>>, got |-> <<>>, tokenCalls |-> 0,
                 origClosed |-> FALSE]
    IN  IF resp.StatusCode # StatusUnauthorized /\ resp.StatusCode # StatusForbidden
        THEN asIs
        ELSE IF ~HasBearerPrefix(resp.Www)
        THEN asIs
        ELSE LET r == fetchTokenAndRetry(tc, t, req, resp, tok, up2)
             IN  IF r.err # Nil
                 THEN r
                 ELSE r

\* On an error of fetchTokenAndRetry the original response is returned, in
\* the state fetchTokenAndRetry left its body in.
handleAuthChallenge(tc, t, req, resp, tok, up2) ==
    LET asIs == [resp |-> resp, err |-> Nil, tokenCache |-> tc,
                 sent |-> <<>>, got |-> <<>>, tokenCalls |-> 0,
                 origClosed |-> FALSE]
    IN  IF resp.StatusCode # StatusUnauthorized /\ resp.StatusCode # StatusForbidden
        THEN asIs
        ELSE IF ~HasBearerPrefix(resp.Www)
        THEN asIs
        ELSE LET r == fetchTokenAndRetry(tc, t, req, resp, tok, up2)
             IN  IF r.err # Nil
                 THEN [r EXCEPT !.resp = [resp EXCEPT !.bodyClosed = r.origClosed],
                                !.err = Nil]
                 ELSE r

\* AuthMiddleware.Process with next the executor, whose answers to the
\* first and to the retried call are up1 and up2.  sent holds the requests
\* passed to next, in order, and got what next returned for each.
AuthProcess(tc, t, st, req, up1, tok, up2) ==
    LET a == applyAuth(tc, t, st, req)
    IN  IF IsErr(up1)
        THEN [resp |-> NoResp, err |-> up1.err, tokenCache |-> a.tokenCache,
              sent |-> <<a.req>>, got |-> <<Returned(1, up1)>>,
              tokenCalls |-> 0, origClosed |-> FALSE]
        ELSE LET r == handleAuthChallenge(a.tokenCache, t, a.req,
                                          UpstreamResp(1, up1), tok, up2)
             IN  [r EXCEPT !.sent = <<a.req>> \o @,
                           !.got = <<Returned(1, up1)>> \o @]

----------------------------------------------------------------------------
(* CacheMiddleware (cache.go of the middleware package) *)

isBlobRequest(req) ==
    /\ req.Method = "GET"
    /\ Len(req.Path) >= 4
    /\ req.Path[Len(req.Path) - 1] = "blobs"

extractDigestFromPath(path) ==
    IF Len(path) >= 2 /\ path[Len(path) - 1] = "blobs"
    THEN path[Len(path)]
    ELSE ""

\* CachedResp without the ContentLength field set.
CachedResp_NoLength(size) ==
    [id |-> 0, StatusCode |-> StatusOK, Www |-> NoHeader,
     ContentLength |-> 0, body |-> "file", bodyClosed |-> FALSE]

\* The response tryServeFromCache synthesizes (proxy.go:228-234).
CachedResp(size) ==
    [id |-> 0, StatusCode |-> StatusOK, Www |-> NoHeader,
     ContentLength |-> size, body |-> "file", bodyClosed |-> FALSE]

tryServeFromCache(cc, f, req) ==
    LET miss == [c |-> cc, resp |-> NoResp, ok |-> FALSE]
        digest == extractDigestFromPath(req.Path)
    IN  IF ~isBlobRequest(req) THEN miss
        ELSE IF digest = "" THEN miss
        ELSE LET r == GetReader(cc, f, digest)
             IN  IF ~r.ok THEN [miss EXCEPT !.c = r.c]
                 ELSE [c |-> r.c, resp |-> CachedResp(r.size), ok |-> TRUE]

\* cacheResponse that wraps the body whatever the status.
cacheResponse_AnyStatus(req, resp) ==
    LET digest == extractDigestFromPath(req.Path)
    IN  IF ~isBlobRequest(req) \/ digest = ""
        THEN [resp |-> resp, wrapped |-> FALSE, digest |-> ""]
        ELSE [resp |-> [resp EXCEPT !.body = "tee"], wrapped |-> TRUE,
              digest |-> digest]

\* wrapped: the body is replaced by the cacheWriter and the goroutine of
\* cache.Put(digest, pr, digest) is started.
cacheResponse(req, resp) ==
    LET digest == extractDigestFromPath(req.Path)
    IN  IF ~isBlobRequest(req) \/ resp.StatusCode # StatusOK \/ digest = ""
        THEN [resp |-> resp, wrapped |-> FALSE, digest |-> ""]
        ELSE [resp |-> [resp EXCEPT !.body = "tee"], wrapped |-> TRUE,
              digest |-> digest]

\* CacheMiddleware.Process from the return of next on (proxy.go:202-208);
\* n is what next returned and did.
ProcessAfterNext(cc, req, n) ==
    LET w == cacheResponse(req, n.resp)
        through == [c |-> cc, resp |-> NoResp, err |-> n.err,
                    tokenCache |-> n.tokenCache, served |-> FALSE,
                    next |-> <<[resp |-> n.resp, err |-> n.err]>>,
                    sent |-> n.sent, got |-> n.got,
                    tokenCalls |-> n.tokenCalls,
                    wrapped |-> FALSE, digest |-> ""]
    IN  IF n.err # Nil THEN through
        ELSE [through EXCEPT !.resp = w.resp, !.wrapped = w.wrapped,
                             !.digest = w.digest]

\* CacheMiddleware.Process with next the auth interceptor followed by the
\* executor (proxy.go:29-32, Pipeline.Execute).  next holds what each
\* invocation of next returned to the cache interceptor.
CacheProcess(cc, f, tc, t, st, req, up1, tok, up2) ==
    LET s == tryServeFromCache(cc, f, req)
    IN  IF s.ok
        THEN [c |-> s.c, resp |-> s.resp, err |-> Nil, tokenCache |-> tc,
              served |-> TRUE, next |-> <<>>, sent |-> <<>>, got |-> <<>>,
              tokenCalls |-> 0, wrapped |-> FALSE, digest |-> ""]
        ELSE ProcessAfterNext(s.c, req,
                              AuthProcess(tc, t, st, req, up1, tok, up2))

----------------------------------------------------------------------------
(* The environment: what the upstream and the token endpoint answer *)


Up(kind, err, status, www) ==
    [kind |-> kind, err |-> err, StatusCode |-> status, Www |-> www]

\* Stands for the answer to a call that is not made.
NoCall == Up("none", Nil, 0, NoHeader)

Realm == <<"https://Auth.docker.io/token">>
Service == <<"registry.docker.io">>

BasicChallenge == [scheme |-> "Basic", params |-> << <<"realm", <<"registry">> >> >>]
BearerNoRealm == [scheme |-> "Bearer", params |-> << <<"service", Service>> >>]
BearerNoScope ==
    [scheme |-> "Bearer",
     params |-> << <<"realm", Realm>>, <<"service", Service>> >>]
BearerScope(repo) ==
    [scheme |-> "Bearer",
     params |-> << <<"realm", Realm>>, <<"service", Service>>,
                   <<"scope", Scope(repo)>> >>]
BearerUpper ==
    [scheme |-> "BEARER",
     params |-> << <<"Realm", Realm>>, <<"Scope", Scope(<<"Library", "Alpine">>)>> >>]

\* The answers of the upstream to the first call of a request.
UpOutcomes ==
    { Up("err", "dial tcp: connection refused", 0, NoHeader),
      Up("resp", Nil, StatusOK, NoHeader),
      Up("resp", Nil, 404, NoHeader),
      Up("resp", Nil, StatusUnauthorized, NoHeader),
      Up("resp", Nil, StatusUnauthorized, BasicChallenge),
      Up("resp", Nil, StatusUnauthorized, BearerNoRealm),
      Up("resp", Nil, StatusUnauthorized, BearerNoScope),
      Up("resp", Nil, StatusUnauthorized, BearerScope(<<"library", "alpine">>)),
      Up("resp", Nil, StatusUnauthorized, BearerUpper),
      Up("resp", Nil, StatusForbidden, BearerScope(<<"library", "alpine">>)) }

\* The answers of the upstream to the retried call.
RetryOutcomes ==
    { Up("err", "read: connection reset by peer", 0, NoHeader),
      Up("resp", Nil, StatusOK, NoHeader),
      Up("resp", Nil, StatusUnauthorized, BearerScope(<<"library", "alpine">>)) }

Tok(kind, token, accessToken, expiresIn) ==
    [kind |-> kind, Token |-> token, AccessToken |-> accessToken,
     ExpiresIn |-> expiresIn]

NoTok == Tok("none", "", "", 0)

\* The answers of the token endpoint: no connection, a status that is not
\* 200, a body that is not JSON, and JSON bodies.
TokOutcomes ==
    { Tok("unreachable", "", "", 0),
      Tok("status", "", "", 0),
      Tok("malformed", "", "", 0),
      Tok("json", "", "", 0),
      Tok("json", "T1", "", 0),
      Tok("json", "", "T2", 1),
      Tok("json", "T1", "T2", 1) }

\* Whether the auth interceptor, given the first answer, calls the token
\* endpoint, and whether, given the endpoint's answer, it retries.
CallsTokenEndpoint(up1) ==
    /\ up1.kind = "resp"
    /\ up1.StatusCode \in {StatusUnauthorized, StatusForbidden}
    /\ HasBearerPrefix(up1.Www)
    /\ "realm" \in DOMAIN parseAuthHeader(up1.Www)

Retries(up1, tok) ==
    CallsTokenEndpoint(up1) /\ tok.kind # "none" /\ getAnonymousToken(tok).err = Nil

----------------------------------------------------------------------------
(* The configuration (config package), the whitelist gate and the routing *)
(* director (proxy.go)                                                     *)

\* A URL path is the sequence of its pieces: Slash for each "/", and each
\* maximal run of other characters as one string.
Slash == "/"

\* strings.Trim(path, "/"): the path without its leading and trailing
\* slashes.
RECURSIVE Trim(_)
Trim(path) ==
    IF path # <<>> /\ Head(path) = Slash THEN Trim(Tail(path))
    ELSE IF path # <<>> /\ path[Len(path)] = Slash
    THEN Trim(SubSeq(path, 1, Len(path) - 1))
    ELSE path

\* strings.Split(s, "/"): the part before the first slash, then the parts
\* of what follows it.  Two slashes in a row, and the empty string, give an
\* empty part.
RECURSIVE Split(_)
Split(s) ==
    IF s = <<>> THEN <<"">>
    ELSE IF Head(s) = Slash THEN <<"">> \o Split(Tail(s))
    ELSE IF Len(s) = 1 THEN <<Head(s)>>
    ELSE <<Head(s)>> \o Split(Tail(Tail(s)))

\* strings.Join(parts, "/")
RECURSIVE Join(_)
Join(parts) ==
    IF parts = <<>> THEN <<>>
    ELSE LET head == IF Head(parts) = "" THEN <<>> ELSE <<Head(parts)>>
         IN  IF Len(parts) = 1 THEN head
             ELSE head \o <<Slash>> \o Join(Tail(parts))

\* The URL path "/" + parts joined by "/".
PathOf(parts) == <<Slash>> \o Join(parts)

\* strings.Contains(s, "."), for the path parts of the model.
ContainsDot(s) == s \in {"ghcr.io", "quay.io", "index.html"}
\* A Config as the YAML file gives it; registries maps each configured
\* registry to its own settings.  Insecure, a *bool, is Nil or the string
\* of what it points to.
RawConfig(whitelistMode, defaultsInsecure, registries) ==
    [WhitelistMode |-> whitelistMode, DefaultRegistry |-> Host,
     Defaults |-> [Insecure |-> defaultsInsecure, CacheDir |-> "/cache",
                   CacheMaxSize |-> MaxSize],
     Registries |-> registries]

\* Config.applyDefaults, for the insecure setting, the cache directory and
\* the cache's maximum size.
applyDefaults(cfg) ==
    LET defaults == IF cfg.Defaults.Insecure = Nil
                    THEN [cfg.Defaults EXCEPT !.Insecure = "false"]
                    ELSE cfg.Defaults
    IN  [cfg EXCEPT
           !.Defaults = defaults,
           !.Registries =
               [name \in DOMAIN cfg.Registries |->
                   LET registrySettings == cfg.Registries[name]
                   IN  [defaults EXCEPT
                          !.CacheDir = IF registrySettings.CacheDir # ""
                                       THEN registrySettings.CacheDir ELSE @,
                          !.CacheMaxSize =
                              IF registrySettings.CacheMaxSize # 0
                              THEN registrySettings.CacheMaxSize ELSE @,
                          !.Insecure = IF registrySettings.Insecure # Nil
                                       THEN registrySettings.Insecure
                                       ELSE @]]]

GetRegistrySettings(cfg, registryName) ==
    IF registryName \in DOMAIN cfg.Registries
    THEN cfg.Registries[registryName]
    ELSE cfg.Defaults

IsRegistryAllowed(cfg, registryName) ==
    IF ~cfg.WhitelistMode THEN TRUE
    ELSE registryName \in DOMAIN cfg.Registries

newDirector(cfg, req) ==
    LET parts == Split(Trim(req.Path))
        v2 == Len(parts) >= 2 /\ parts[1] = "v2"
        dotted == v2 /\ ContainsDot(parts[2])
        remoteHost == IF dotted THEN parts[2] ELSE cfg.DefaultRegistry
        path == IF dotted
                THEN <<Slash, "v2", Slash>>
                        \o Join(SubSeq(parts, 3, Len(parts)))
                ELSE IF v2 /\ parts[2] # Slash  \* no part holds a "/"
                THEN <<Slash, "v2", Slash, "library", Slash>>
                        \o Join(SubSeq(parts, 2, Len(parts)))
                ELSE req.Path
        settings == GetRegistrySettings(cfg, remoteHost)
    IN  [Path |-> path, Host |-> remoteHost,
         Scheme |-> IF settings.Insecure # Nil /\ settings.Insecure = "true"
                    THEN "http" ELSE "https",
         Authorization |-> NoAuthorization]

\* The registry the whitelist gate looks up.
gateRegistry(cfg, req) ==
    LET parts == Split(Trim(req.Path))
    IN  IF Len(parts) >= 2 /\ parts[1] = "v2" /\ ContainsDot(parts[2])
        THEN parts[2]
        ELSE cfg.DefaultRegistry

\* A gate that looks the default registry up whatever the path is.
isRegistryAllowed_DefaultOnly(cfg, req) ==
    IsRegistryAllowed(cfg, cfg.DefaultRegistry)

isRegistryAllowed(cfg, req) ==
    IsRegistryAllowed(cfg, gateRegistry(cfg, req))

\* No request handed to the reverse proxy.
NoOut == [Path |-> <<>>, Host |-> "", Scheme |-> "",
          Authorization |-> NoAuthorization]

\* The "/" handler of newProxyHandler, with index.html and app.js the files
\* of the embedded web directory: handler is the stage that answered,
\* wrote the status it wrote itself, and out the request the reverse proxy
\* hands to the pipeline after the director.  authenticated is what
\* cfg.Auth.IsAuthenticated reports for the request.
proxyHandler(cfg, req, authenticated) ==
    LET path == IF req.Path = <<Slash>> THEN PathOf(<<"index.html">>)
                ELSE req.Path
    IN  IF Head(path) = Slash /\ Tail(path) \in {<<"index.html">>, <<"app.js">>}
        THEN [handler |-> "web", wrote |-> <<>>, out |-> NoOut]
        ELSE IF ~authenticated
        THEN [handler |-> "requireAuth", wrote |-> <<StatusUnauthorized>>,
              out |-> NoOut]
        ELSE IF cfg.WhitelistMode /\ ~isRegistryAllowed(cfg, req)
        THEN [handler |-> "gate", wrote |-> <<StatusForbidden>>,
              out |-> NoOut]
        ELSE [handler |-> "proxy", wrote |-> <<>>,
              out |-> newDirector(cfg, req)]

\* No inbound request: req is the request as the listener has it, res what
\* the handler did with it.
NoRoute == [cfg |-> RawConfig(FALSE, Nil, <<>>),
            req |-> [Path |-> <<>>, Host |-> "proxy.local", Scheme |-> "",
                     Authorization |-> NoAuthorization],
            authenticated |-> FALSE,
            res |-> [handler |-> "none", wrote |-> <<>>, out |-> NoOut]]

----------------------------------------------------------------------------
(* Spec: the cache's API *)

CacheDir == "/cache"

\* A goroutine between calls.  In a call, pc is where it is, key and data
\* what it was called with and toEvict the victims evictIfNeeded collected.
IdleProc == [pc |-> "idle", key |-> "", data |-> <<>>, toEvict |-> <<>>]
\* The two goroutines that call the cache at the same time.
NoProcs == [p \in {"p1", "p2"} |-> IdleProc]
NoFiles == [n \in {} |-> <<>>]
\* c.mu and c.persistMu unlocked: w is the goroutine that holds c.mu for
\* writing, r the goroutines that hold it for reading and pm the one that
\* holds c.persistMu.
NoLocks == [w |-> "", r |-> {}, pm |-> ""]
\* The main goroutine serving, before the signal (part_005:51).
NoMain == [pc |-> "serving", entries |-> <<>>]
\* NewCacheManager (part_001:177-182): an empty map, its lock free.  made
\* lists the hosts a cache was stored for, in the order of the stores, and
\* got the pairs of a host and the instance a GetCache returned for it.
NoCaches == [caches |-> <<>>, mu |-> "", made |-> <<>>,
             got |-> {}]

NoRet == [op |-> "none", key |-> "", data |-> <<>>, fault |-> "none",
          err |-> Nil, ok |-> FALSE, reader |-> <<>>, size |-> 0]

NoTokens == [k \in {} |-> [token |-> "", expiresAt |-> 0]]

NoRt == [n |-> 0, req |-> Request("", <<>>), resp |-> NoResp, err |-> Nil,
         served |-> FALSE, wrapped |-> FALSE, next |-> <<>>, sent |-> <<>>,
         got |-> <<>>, tok |-> NoTok, tokenCalls |-> 0]

\* No wrapped body.  pos is how many bytes of the upstream body the
\* client's Reads have returned,
\* cerr the error the client's Read returned, pc where the goroutine of
\* Put is and putErr what Put returned; rd is where a Read in progress is
\* and wr how many of its bytes its write to the pipe has yet to hand over.
NoTee == [active |-> FALSE, digest |-> "", body |-> <<>>, pos |-> 0,
          upErr |-> FALSE, cerr |-> Nil, eof |-> FALSE, closed |-> FALSE,
          prClosed |-> FALSE, pc |-> "idle", putErr |-> Nil,
          rd |-> "idle", wr |-> 0]

Init ==
    /\ c = NewLRUCache(MaxSize, CacheDir)
    /\ files = NoFiles
    /\ ret = NoRet
    /\ tokenCache = NoTokens
    /\ now = 0
    /\ static = FALSE
    /\ rt = NoRt
    /\ tee = NoTee
    /\ route = NoRoute
    /\ procs = NoProcs
    /\ mu = NoLocks
    /\ main = NoMain
    /\ cm = NoCaches

\* cache.Put(digest, reader, digest), as the cache interceptor calls it
\* (proxy.go:253): the key is the digest the bytes are expected to have.
CallPut ==
    \E key \in Keys, data \in Bodies, fault \in Faults :
        /\ c.evictions < MaxCount
        /\ \E r \in {Put(c, files, key, data, key, fault)} :
               /\ c' = r.c
               /\ files' = r.files
               /\ ret' = [NoRet EXCEPT !.op = "Put", !.key = key, !.data = data,
                                       !.fault = fault, !.err = r.err]
        /\ UNCHANGED <<authVars, rt, tee, route, procs, mu, main, cm>>

\* cache.GetReader(digest); os.Open can fail on a file that is there, which
\* GetReader cannot tell from a file that is not (lru.go:98-108).
CallGetReader ==
    \E key \in Keys, opens \in BOOLEAN :
        /\ c.hits < MaxCount /\ c.misses < MaxCount
        /\ \E r \in {GetReader(c, IF opens THEN files
                                    ELSE RemoveFile(files, key), key)} :
               /\ c' = r.c
               /\ files' = files
               /\ ret' = [NoRet EXCEPT !.op = "GetReader", !.key = key,
                                       !.fault = IF opens THEN "none"
                                                 ELSE "open",
                                       !.ok = r.ok, !.reader = r.reader,
                                       !.size = r.size]
        /\ UNCHANGED <<authVars, rt, tee, route, procs, mu, main, cm>>

CallRemove ==
    \E key \in Keys :
        /\ \E r \in {Remove(c, files, key)} :
               /\ c' = r.c
               /\ files' = r.files
        /\ ret' = [NoRet EXCEPT !.op = "Remove", !.key = key]
        /\ UNCHANGED <<authVars, rt, tee, route, procs, mu, main, cm>>

CallClear ==
    /\ \E r \in {Clear(c, files)} :
           /\ c' = r.c
           /\ files' = r.files
    /\ ret' = [NoRet EXCEPT !.op = "Clear"]
    /\ UNCHANGED <<authVars, rt, tee, route, procs, mu, main, cm>>

Spec == Init /\ [][CallPut \/ CallGetReader \/ CallRemove \/ CallClear]_vars

----------------------------------------------------------------------------
(* SpecPipe: requests through the pipeline, and the tee of a blob miss *)

\* No request is made after MaxReq requests.
MaxReq == 2

PipeDigests == {ActualDigest(<<"a">>), ActualDigest(<<"b">>),
                ActualDigest(<<"a","b">>)}

PipeRequests ==
    {Request("GET", BlobPath(d)) : d \in PipeDigests}
        \cup {Request("HEAD", BlobPath(ActualDigest(<<"a">>))),
              Request("GET", ShortBlobPath(ActualDigest(<<"a">>))),
              Request("GET", ManifestPath)}

PipeUpOutcomes ==
    { Up("err", "dial tcp: connection refused", 0, NoHeader),
      Up("resp", Nil, StatusOK, NoHeader),
      Up("resp", Nil, 404, NoHeader),
      Up("resp", Nil, StatusUnauthorized, BearerScope(<<"library", "alpine">>)) }

PipeTokOutcomes == {Tok("unreachable", "", "", 0), Tok("json", "T1", "", 0)}


\* The registry of SpecPipe has no static credentials.
InitPipe ==
    /\ c = NewLRUCache(MaxSize, CacheDir)
    /\ files = NoFiles
    /\ ret = NoRet
    /\ tokenCache = NoTokens
    /\ now = 0
    /\ static = FALSE
    /\ rt = NoRt
    /\ tee = NoTee
    /\ route = NoRoute
    /\ procs = NoProcs
    /\ mu = NoLocks
    /\ main = NoMain
    /\ cm = NoCaches

\* One request through Pipeline.Execute: the cache interceptor, the auth
\* interceptor, the executor.  A request is made when the body of the one
\* before is closed and its Put has returned.
RoundTrip ==
    /\ rt.n < MaxReq
    /\ tee.active => (tee.closed /\ tee.pc = "done")
    /\ \E req \in PipeRequests :
         \E up1 \in IF tryServeFromCache(c, files, req).ok
                    THEN {NoCall} ELSE PipeUpOutcomes :
           \E tok \in IF CallsTokenEndpoint(up1)
                      THEN PipeTokOutcomes ELSE {NoTok} :
             \E up2 \in IF Retries(up1, tok) THEN RetryOutcomes ELSE {NoCall} :
               \E r \in {CacheProcess(c, files, tokenCache, now, static,
                                      req, up1, tok, up2)} :
                   /\ c' = r.c
                   /\ tokenCache' = r.tokenCache
                   /\ rt' = [n |-> rt.n + 1, req |-> req, resp |-> r.resp,
                             err |-> r.err, served |-> r.served,
                             wrapped |-> r.wrapped, next |-> r.next,
                             sent |-> r.sent, got |-> r.got, tok |-> tok,
                             tokenCalls |-> r.tokenCalls]
                   /\ IF r.wrapped
                      THEN \E body \in Bodies :
                             tee' = [NoTee EXCEPT !.active = TRUE,
                                                  !.digest = r.digest,
                                                  !.body = body,
                                                  !.pc = "create"]
                      ELSE tee' = NoTee
                   /\ UNCHANGED <<files, ret, now, static, route, procs,
                                  mu, main, cm>>

\* PutStart in a goroutine that does not close the pipe's read side when
\* Put returns.
PutStart_NoClose ==
    /\ tee.active /\ tee.pc = "create"
    /\ \E fault \in {"none", "create"} :
         IF c.cacheDir = ""
         THEN /\ tee' = [tee EXCEPT !.pc = "drain"]
              /\ files' = files
         ELSE IF fault = "create"
         THEN /\ tee' = [tee EXCEPT !.pc = "done", !.putErr = "failed to create temp file"]
              /\ files' = files
         ELSE /\ tee' = [tee EXCEPT !.pc = "copy"]
              /\ files' = WriteFile(files, TmpName, <<>>)
    /\ UNCHANGED <<c, ret, authVars, rt, route, procs, mu, main, cm>>

\* The goroutine of cacheResponse up to io.Copy (lru.go:116-133).
PutStart ==
    /\ tee.active /\ tee.pc = "create"
    /\ \E fault \in {"none", "create"} :
         IF c.cacheDir = ""
         THEN /\ tee' = [tee EXCEPT !.pc = "drain"]
              /\ files' = files
         ELSE IF fault = "create"
         THEN /\ tee' = [tee EXCEPT !.pc = "done", !.putErr = "failed to create temp file",
                                    !.prClosed = TRUE]
              /\ files' = files
         ELSE /\ tee' = [tee EXCEPT !.pc = "copy"]
              /\ files' = WriteFile(files, TmpName, <<>>)
    /\ UNCHANGED <<c, ret, authVars, rt, route, procs, mu, main, cm>>

\* cacheWriter.Read, which is teeReader.Read: a read of the upstream body
\* and, when it yields bytes, a write of them to the pipe.  The write
\* blocks until Put reads the pipe; once the pipe's read side is closed it
\* fails, and Read returns the write's count, 0, and its error.  The bytes
\* Put reads it writes to the temp file, which may fail.
CwRead ==
    /\ tee.active /\ ~tee.closed
    /\ tee.cerr = Nil /\ ~tee.eof
    /\ \/ \E n \in 1..(Len(tee.body) - tee.pos) :
            LET chunk == SubSeq(tee.body, tee.pos + 1, tee.pos + n)
            IN  \/ /\ tee.prClosed
                   /\ tee' = [tee EXCEPT !.cerr = "io: read/write on closed pipe"]
                   /\ files' = files
                \/ /\ ~tee.prClosed /\ tee.pc = "drain"
                   /\ tee' = [tee EXCEPT !.pos = @ + n]
                   /\ files' = files
                \/ /\ ~tee.prClosed /\ tee.pc = "copy"
                   /\ \E fault \in {"none", "write"} :
                        IF fault = "write"
                        THEN /\ tee' = [tee EXCEPT !.pos = @ + n, !.pc = "done",
                                                   !.putErr = "failed to write to temp file",
                                                   !.prClosed = TRUE]
                             /\ files' = PutCleanup(files)
                        ELSE /\ tee' = [tee EXCEPT !.pos = @ + n]
                             /\ files' = WriteFile(files, TmpName,
                                                   files[TmpName] \o chunk)
       \/ /\ tee.pos = Len(tee.body)
          /\ tee' = [tee EXCEPT !.eof = TRUE]
          /\ files' = files
       \/ /\ tee' = [tee EXCEPT !.upErr = TRUE, !.cerr = "unexpected EOF"]
          /\ files' = files
    /\ UNCHANGED <<c, ret, authVars, rt, route, procs, mu, main, cm>>

\* CwClose that first copies the rest of the upstream body to the pipe.
CwClose_Drains ==
    /\ tee.active /\ ~tee.closed
    /\ tee' = [tee EXCEPT !.closed = TRUE]
    /\ files' = IF tee.pc = "copy" THEN WriteFile(files, TmpName, tee.body)
                ELSE files
    /\ UNCHANGED <<c, ret, authVars, rt, route, procs, mu, main, cm>>

\* cacheWriter.Close: close the upstream body and the pipe's write side.
CwClose ==
    /\ tee.active /\ ~tee.closed
    /\ tee' = [tee EXCEPT !.closed = TRUE]
    /\ UNCHANGED <<c, files, ret, authVars, rt, route, procs, mu, main, cm>>

\* The goroutine of cacheResponse from the EOF of the pipe on (lru.go:
\* 134-181, proxy.go:252): Put's reader ends when the write side is closed.
PutFinish ==
    /\ tee.active /\ tee.closed /\ tee.pc \in {"copy", "drain"}
    /\ IF tee.pc = "drain"
       THEN /\ tee' = [tee EXCEPT !.pc = "done", !.prClosed = TRUE]
            /\ UNCHANGED <<c, files>>
       ELSE \E fault \in {"none", "sync", "rename"} :
              \E r \in {PutTail(c, files, tee.digest, tee.digest, fault)} :
                  /\ c' = r.c
                  /\ files' = r.files
                  /\ tee' = [tee EXCEPT !.pc = "done", !.putErr = r.err,
                                        !.prClosed = TRUE]
    /\ UNCHANGED <<ret, authVars, rt, route, procs, mu, main, cm>>

SpecPipe ==
    InitPipe /\ [][RoundTrip \/ PutStart \/ CwRead \/ CwClose \/ PutFinish]_vars

----------------------------------------------------------------------------
(* SpecAuth: requests through the auth interceptor, with a clock *)

\* The clock stops at MaxTime.
MaxTime == 2

AuthRequests ==
    { Request("GET", ManifestPath), Request("GET", UpperManifestPath),
      Request("GET", BlobPath(ActualDigest(<<"a">>))),
      Request("GET", TagsPath), Request("GET", RootPath) }

InitAuth ==
    /\ c = NewLRUCache(MaxSize, CacheDir)
    /\ files = NoFiles
    /\ ret = NoRet
    /\ tokenCache = NoTokens
    /\ now = 0
    /\ static \in BOOLEAN
    /\ rt = NoRt
    /\ tee = NoTee
    /\ route = NoRoute
    /\ procs = NoProcs
    /\ mu = NoLocks
    /\ main = NoMain
    /\ cm = NoCaches

\* One request through AuthMiddleware.Process with next the executor,
\* made when the request before has been answered.
AuthRequest ==
    /\ rt = NoRt
    /\ \E req \in AuthRequests, up1 \in UpOutcomes :
         \E tok \in IF CallsTokenEndpoint(up1) THEN TokOutcomes ELSE {NoTok} :
           \E up2 \in IF Retries(up1, tok) THEN RetryOutcomes ELSE {NoCall} :
             \E r \in {AuthProcess(tokenCache, now, static, req, up1, tok, up2)} :
                 /\ tokenCache' = r.tokenCache
                 /\ rt' = [NoRt EXCEPT !.n = 1, !.req = req,
                                       !.resp = r.resp, !.err = r.err,
                                       !.sent = r.sent, !.got = r.got,
                                       !.tok = tok,
                                       !.tokenCalls = r.tokenCalls]
    /\ UNCHANGED <<c, files, ret, now, static, tee, route, procs, mu, main,
                   cm>>

\* Transport.RoundTrip returns: the request is over.
Respond ==
    /\ rt # NoRt
    /\ rt' = NoRt
    /\ UNCHANGED <<c, files, ret, authVars, tee, route, procs, mu, main, cm>>

Tick ==
    /\ now < MaxTime
    /\ now' = now + 1
    /\ UNCHANGED <<c, files, ret, tokenCache, static, rt, tee, route,
                   procs, mu, main, cm>>

SpecAuth == InitAuth /\ [][AuthRequest \/ Respond \/ Tick]_vars

----------------------------------------------------------------------------
(* SpecPersist: the cache's API with Persist, and restarts on the same    *)
(* directory                                                               *)

\* The blobs put: two of one byte and one of two.
PersistBodies == {<<"a">>, <<"b">>, <<"a","b">>}

\* The cache_max_size of a run is the bound or one more, which holds all
\* but one byte of the blobs put.
InitPersist ==
    /\ \E maxSize \in {MaxSize + 1, MaxSize} :
           c = NewLRUCache(maxSize, CacheDir)
    /\ files = NoFiles
    /\ ret = NoRet
    /\ tokenCache = NoTokens
    /\ now = 0
    /\ static = FALSE
    /\ rt = NoRt
    /\ tee = NoTee
    /\ route = NoRoute
    /\ procs = NoProcs
    /\ mu = NoLocks
    /\ main = NoMain
    /\ cm = NoCaches

\* cache.Put of a blob under its digest, every I/O step succeeding.
PersistPut ==
    \E data \in PersistBodies :
        /\ c.evictions < MaxCount
        /\ \E r \in {Put(c, files, ActualDigest(data), data,
                         ActualDigest(data), "none")} :
               /\ c' = r.c
               /\ files' = r.files
               /\ ret' = [NoRet EXCEPT !.op = "Put", !.err = r.err,
                                       !.key = ActualDigest(data)]
        /\ UNCHANGED <<authVars, rt, tee, route, procs, mu, main, cm>>

PersistGetReader ==
    \E data \in PersistBodies :
        /\ c.hits < MaxCount /\ c.misses < MaxCount
        /\ \E r \in {GetReader(c, files, ActualDigest(data))} :
               /\ c' = r.c
               /\ files' = files
               /\ ret' = [NoRet EXCEPT !.op = "GetReader", !.ok = r.ok,
                                       !.key = ActualDigest(data)]
        /\ UNCHANGED <<authVars, rt, tee, route, procs, mu, main, cm>>

\* Cache.Persist, as PersistAll calls it at shutdown (part_001:212-225).
\* Each I/O step of it can succeed, or fail at one place.
CallPersist ==
    \E fault \in {"none", "create", "encode", "flush", "sync", "rename"} :
        /\ \E r \in {Persist(c, files, fault)} :
               /\ c' = r.c
               /\ files' = r.files
               /\ ret' = [NoRet EXCEPT !.op = "Persist", !.err = r.err]
        /\ UNCHANGED <<authVars, rt, tee, route, procs, mu, main, cm>>

\* The process ends and a new one constructs the cache on the directory,
\* with the cache_max_size its configuration has then.
Restart ==
    \E maxSize \in {MaxSize + 1, MaxSize} :
        /\ \E r \in {load(NewLRUCache(maxSize, CacheDir), files)} :
               /\ c' = r.c
               /\ files' = r.files
        /\ ret' = [NoRet EXCEPT !.op = "NewLRUCache"]
        /\ UNCHANGED <<authVars, rt, tee, route, procs, mu, main, cm>>

SpecPersist ==
    InitPersist /\ [][\/ PersistPut \/ PersistGetReader
                      \/ CallRemove \/ CallClear
                      \/ CallPersist \/ Restart]_vars

----------------------------------------------------------------------------
(* SpecConc: goroutines calling the cache at the same time.  A step is a  *)
(* part of a call that runs with c.mu held, or one between two such parts *)

\* Put up to the rename (lru.go:116-155), every I/O step succeeding: the
\* temp file, which no other goroutine names, takes the place of the key's
\* file.  A blob larger than maxSize is not renamed and Put returns.
ConcPutRename(p) ==
    \E data \in PersistBodies :
        /\ procs[p].pc = "idle"
        /\ c.evictions < MaxCount
        /\ IF c.maxSize > 0 /\ Len(data) > c.maxSize
           THEN UNCHANGED <<files, procs>>
           ELSE /\ files' = RenameFile(WriteFile(files, TmpName, data),
                                       TmpName, ActualDigest(data))
                /\ procs' = [procs EXCEPT ![p] =
                               [IdleProc EXCEPT !.pc = "put_lock",
                                                !.key = ActualDigest(data),
                                                !.data = data]]
        /\ UNCHANGED <<c, ret, authVars, rt, tee, route, mu, main, cm>>

\* Put under the lock (lru.go:157-178) up to the Unlock of evictIfNeeded
\* (lru.go:200), or to its return when there is nothing to evict.
ConcPutLock(p) ==
    /\ procs[p].pc = "put_lock"
    /\ \E r \in {IF c.maxSize <= 0
                 THEN [c |-> PutInsert(c, procs[p].key, Len(procs[p].data)),
                       toEvict |-> <<>>]
                 ELSE evictLoop(PutInsert(c, procs[p].key,
                                          Len(procs[p].data)), <<>>)} :
           IF Len(r.toEvict) > 0
           THEN /\ c' = r.c
                /\ procs' = [procs EXCEPT ![p].pc = "put_delete",
                                          ![p].toEvict = r.toEvict]
           ELSE /\ c' = [r.c EXCEPT !.persistDirty = TRUE]
                /\ procs' = [procs EXCEPT ![p] = IdleProc]
    /\ UNCHANGED <<files, ret, authVars, rt, tee, route, mu, main, cm>>

\* deleteFiles without the lock, then Lock, the dirty flag and the return
\* (lru.go:201-202, 179-180).
ConcPutDelete(p) ==
    /\ procs[p].pc = "put_delete"
    /\ files' = deleteFiles(files, procs[p].toEvict)
    /\ c' = [c EXCEPT !.persistDirty = TRUE]
    /\ procs' = [procs EXCEPT ![p] = IdleProc]
    /\ UNCHANGED <<ret, authVars, rt, tee, route, mu, main, cm>>

\* GetReader under the lock (lru.go:83-96).
ConcGetLookup(p) ==
    \E data \in PersistBodies :
        /\ procs[p].pc = "idle"
        /\ c.hits < MaxCount /\ c.misses < MaxCount
        /\ IF ActualDigest(data) \notin c.cache
           THEN /\ c' = [c EXCEPT !.misses = @ + 1]
                /\ UNCHANGED procs
           ELSE /\ c' = [c EXCEPT !.ll = MoveToFront(c.ll,
                                   ElementOf(c.ll, ActualDigest(data)))]
                /\ procs' = [procs EXCEPT ![p] =
                               [IdleProc EXCEPT !.pc = "get_open",
                                                !.key = ActualDigest(data)]]
        /\ UNCHANGED <<files, ret, authVars, rt, tee, route, mu, main, cm>>

\* GetReader from os.Open on (lru.go:98-112).
ConcGetOpen(p) ==
    /\ procs[p].pc = "get_open"
    /\ IF ~FileExists(files, procs[p].key)
       THEN c' = [(IF procs[p].key \in c.cache
                   THEN removeElementLocked(c, ElementOf(c.ll, procs[p].key))
                   ELSE c) EXCEPT !.misses = @ + 1]
       ELSE c' = [c EXCEPT !.hits = @ + 1, !.persistDirty = TRUE]
    /\ procs' = [procs EXCEPT ![p] = IdleProc]
    /\ UNCHANGED <<files, ret, authVars, rt, tee, route, mu, main, cm>>

\* Remove holds the lock from its first statement to its return.
ConcRemove(p) ==
    \E data \in PersistBodies :
        /\ procs[p].pc = "idle"
        /\ ActualDigest(data) \in c.cache
        /\ \E r \in {Remove(c, files, ActualDigest(data))} :
               /\ c' = r.c
               /\ files' = r.files
        /\ UNCHANGED <<procs, ret, authVars, rt, tee, route, mu, main, cm>>

\* So does Clear.
ConcClear(p) ==
    /\ procs[p].pc = "idle"
    /\ c.cache # {}
    /\ \E r \in {Clear(c, files)} :
           /\ c' = r.c
           /\ files' = r.files
    /\ UNCHANGED <<procs, ret, authVars, rt, tee, route, mu, main, cm>>

SpecConc ==
    Init /\ [][\E p \in DOMAIN procs :
                  \/ ConcPutRename(p) \/ ConcPutLock(p) \/ ConcPutDelete(p)
                  \/ ConcGetLookup(p) \/ ConcGetOpen(p)
                  \/ ConcRemove(p) \/ ConcClear(p)]_vars

----------------------------------------------------------------------------
(* SpecLock: goroutines calling the cache at the same time, lock by lock, *)
(* and the main goroutine from the signal to its return.  A step is one   *)
(* acquisition of a lock, or what a goroutine does from there to its next *)
(* acquisition, its next I/O or its return; every I/O step succeeds.      *)
(* sync.RWMutex keeps no owner: Unlock by a goroutine that does not hold  *)
(* the lock is a fatal error when nobody holds it and the end of another  *)
(* goroutine's critical section when somebody does; the word reads        *)
(* "misuse" from then on.                                                  *)

\* The blobs of SpecLock: one of one byte, and one that fills the cache, so
\* that the two do not fit together.
LockBodies == {b \in Bodies : b = <<"a">> \/ Len(b) = MaxSize}

\* Cache.Put (lru.go:115-181) but for the three lines of evictIfNeeded
\* that run when there are victims.
LockPut(p) ==
    \/ \E data \in LockBodies :
          \* the temp file, the digest and the rename (lru.go:121-155)
          /\ procs[p].pc = "idle"
          /\ c.evictions < MaxCount
          /\ IF c.maxSize > 0 /\ Len(data) > c.maxSize
             THEN UNCHANGED <<files, procs>>
             ELSE /\ files' = RenameFile(WriteFile(files, TmpName, data),
                                         TmpName, ActualDigest(data))
                  /\ procs' = [procs EXCEPT ![p] =
                                 [IdleProc EXCEPT !.pc = "put_lock",
                                                  !.key = ActualDigest(data),
                                                  !.data = data]]
          /\ UNCHANGED <<c, ret, authVars, rt, tee, route, mu, main, cm>>
    \/ \* c.mu.Lock(), the insertion and the loop of evictIfNeeded
       \* (lru.go:157-197)
       /\ procs[p].pc = "put_lock"
       /\ mu.w = "" /\ mu.r = {}
       /\ mu' = [mu EXCEPT !.w = p]
       /\ \E r \in {IF c.maxSize <= 0
                    THEN [c |-> PutInsert(c, procs[p].key,
                                          Len(procs[p].data)),
                          toEvict |-> <<>>]
                    ELSE evictLoop(PutInsert(c, procs[p].key,
                                             Len(procs[p].data)), <<>>)} :
              /\ c' = r.c
              /\ procs' = [procs EXCEPT
                             ![p].pc = IF Len(r.toEvict) > 0
                                       THEN "evict_unlock" ELSE "put_return",
                             ![p].toEvict = r.toEvict]
       /\ UNCHANGED <<files, ret, authVars, rt, tee, route, main, cm>>
    \/ \* the dirty flag, the return and the deferred Unlock
       \* (lru.go:179-180, 158)
       /\ procs[p].pc = "put_return"
       /\ c' = [c EXCEPT !.persistDirty = TRUE]
       /\ mu' = [mu EXCEPT !.w = IF @ = p THEN "" ELSE "misuse"]
       /\ procs' = [procs EXCEPT ![p] = IdleProc]
       /\ UNCHANGED <<files, ret, authVars, rt, tee, route, main, cm>>

\* evictIfNeeded with victims, called with c.mu held: Unlock, deleteFiles,
\* Lock.
LockEvict_NoRelock(p) ==
    \/ /\ procs[p].pc = "evict_unlock"
       /\ mu' = [mu EXCEPT !.w = IF @ = p THEN "" ELSE "misuse"]
       /\ procs' = [procs EXCEPT ![p].pc = "evict_delete"]
       /\ UNCHANGED <<c, files, ret, authVars, rt, tee, route, main, cm>>
    \/ /\ procs[p].pc = "evict_delete"
       /\ files' = deleteFiles(files, procs[p].toEvict)
       /\ procs' = [procs EXCEPT ![p].pc = "put_return"]
       /\ UNCHANGED <<c, ret, authVars, rt, tee, route, mu, main, cm>>

\* evictIfNeeded with victims (lru.go:199-203), called with c.mu held.
LockEvict(p) ==
    \/ \* c.mu.Unlock()
       /\ procs[p].pc = "evict_unlock"
       /\ mu' = [mu EXCEPT !.w = IF @ = p THEN "" ELSE "misuse"]
       /\ procs' = [procs EXCEPT ![p].pc = "evict_delete"]
       /\ UNCHANGED <<c, files, ret, authVars, rt, tee, route, main, cm>>
    \/ \* c.deleteFiles(toEvict)
       /\ procs[p].pc = "evict_delete"
       /\ files' = deleteFiles(files, procs[p].toEvict)
       /\ procs' = [procs EXCEPT ![p].pc = "evict_lock"]
       /\ UNCHANGED <<c, ret, authVars, rt, tee, route, mu, main, cm>>
    \/ \* c.mu.Lock()
       /\ procs[p].pc = "evict_lock"
       /\ mu.w = "" /\ mu.r = {}
       /\ mu' = [mu EXCEPT !.w = p]
       /\ procs' = [procs EXCEPT ![p].pc = "put_return"]
       /\ UNCHANGED <<c, files, ret, authVars, rt, tee, route, main, cm>>

\* Cache.GetReader (lru.go:82-113).
LockGetReader(p) ==
    \/ \E data \in LockBodies :
          \* from Lock to Unlock (lru.go:83-96), which has no I/O in it
          /\ procs[p].pc = "idle"
          /\ c.hits < MaxCount /\ c.misses < MaxCount
          /\ mu.w = "" /\ mu.r = {}
          /\ IF ActualDigest(data) \notin c.cache
             THEN /\ c' = [c EXCEPT !.misses = @ + 1]
                  /\ UNCHANGED procs
             ELSE /\ c' = [c EXCEPT !.ll = MoveToFront(c.ll,
                                     ElementOf(c.ll, ActualDigest(data)))]
                  /\ procs' = [procs EXCEPT ![p] =
                                 [IdleProc EXCEPT !.pc = "get_open",
                                                  !.key = ActualDigest(data)]]
          /\ UNCHANGED <<files, ret, authVars, rt, tee, route, mu, main, cm>>
    \/ \* os.Open, and the return of a hit (lru.go:98-99, 110-112)
       /\ procs[p].pc = "get_open"
       /\ IF FileExists(files, procs[p].key)
          THEN /\ c' = [c EXCEPT !.hits = @ + 1, !.persistDirty = TRUE]
               /\ procs' = [procs EXCEPT ![p] = IdleProc]
          ELSE /\ c' = c
               /\ procs' = [procs EXCEPT ![p].pc = "get_heal"]
       /\ UNCHANGED <<files, ret, authVars, rt, tee, route, mu, main, cm>>
    \/ \* the removal of the entry of a file that did not open
       \* (lru.go:101-107)
       /\ procs[p].pc = "get_heal"
       /\ mu.w = "" /\ mu.r = {}
       /\ c' = [(IF procs[p].key \in c.cache
                 THEN removeElementLocked(c, ElementOf(c.ll, procs[p].key))
                 ELSE c) EXCEPT !.misses = @ + 1]
       /\ procs' = [procs EXCEPT ![p] = IdleProc]
       /\ UNCHANGED <<files, ret, authVars, rt, tee, route, mu, main, cm>>

\* Cache.Remove (lru.go:217-229).
LockRemove(p) ==
    \/ \E data \in LockBodies :
          \* c.mu.Lock()
          /\ procs[p].pc = "idle"
          /\ mu.w = "" /\ mu.r = {}
          /\ mu' = [mu EXCEPT !.w = p]
          /\ procs' = [procs EXCEPT ![p] =
                         [IdleProc EXCEPT !.pc = "remove_locked",
                                          !.key = ActualDigest(data)]]
          /\ UNCHANGED <<c, files, ret, authVars, rt, tee, route, main, cm>>
    \/ \* the rest, and the deferred Unlock
       /\ procs[p].pc = "remove_locked"
       /\ \E r \in {Remove(c, files, procs[p].key)} :
              /\ c' = r.c
              /\ files' = r.files
       /\ mu' = [mu EXCEPT !.w = IF @ = p THEN "" ELSE "misuse"]
       /\ procs' = [procs EXCEPT ![p] = IdleProc]
       /\ UNCHANGED <<ret, authVars, rt, tee, route, main, cm>>

\* Cache.Clear (lru.go:389-406).
LockClear(p) ==
    \/ \* c.mu.Lock()
       /\ procs[p].pc = "idle"
       /\ c.cache # {}
       /\ mu.w = "" /\ mu.r = {}
       /\ mu' = [mu EXCEPT !.w = p]
       /\ procs' = [procs EXCEPT ![p].pc = "clear_locked"]
       /\ UNCHANGED <<c, files, ret, authVars, rt, tee, route, main, cm>>
    \/ \* the rest, and the deferred Unlock
       /\ procs[p].pc = "clear_locked"
       /\ \E r \in {Clear(c, files)} :
              /\ c' = r.c
              /\ files' = r.files
       /\ mu' = [mu EXCEPT !.w = IF @ = p THEN "" ELSE "misuse"]
       /\ procs' = [procs EXCEPT ![p] = IdleProc]
       /\ UNCHANGED <<ret, authVars, rt, tee, route, main, cm>>

\* Cache.Stats (lru.go:365-377): RLock, the reads, the deferred RUnlock.
LockStats(p) ==
    \/ /\ procs[p].pc = "idle"
       /\ mu.w = ""
       /\ mu' = [mu EXCEPT !.r = @ \cup {p}]
       /\ procs' = [procs EXCEPT ![p].pc = "stats_locked"]
       /\ UNCHANGED <<c, files, ret, authVars, rt, tee, route, main, cm>>
    \/ /\ procs[p].pc = "stats_locked"
       /\ mu' = [mu EXCEPT !.r = @ \ {p},
                           !.w = IF p \in mu.r THEN @ ELSE "misuse"]
       /\ procs' = [procs EXCEPT ![p] = IdleProc]
       /\ UNCHANGED <<c, files, ret, authVars, rt, tee, route, main, cm>>

\* The main goroutine from the signal on (part_005:51-64): Shutdown, which
\* waits for no background Put and for a request only until its context
\* expires, then PersistAll (part_001:212-225), which calls Persist
\* (lru.go:239-296) on the cache, and the return of main, which ends the
\* process.  The entries Persist copies are pointers; an entry's key and
\* size are not written after its insertion, the blobs being put under
\* their digests.
LockPersist ==
    \/ \* <-shutdown and server.Shutdown(ctx)
       /\ main.pc = "serving"
       /\ main' = [main EXCEPT !.pc = "persist"]
       /\ UNCHANGED <<c, files, ret, authVars, rt, tee, route, procs, mu, cm>>
    \/ \* the test of the dirty flag and persistMu.Lock() (lru.go:240-250)
       /\ main.pc = "persist"
       /\ IF ~c.persistDirty \/ c.cacheDir = ""
          THEN /\ main' = [main EXCEPT !.pc = "exited"]
               /\ mu' = mu
          ELSE /\ mu.pm = ""
               /\ mu' = [mu EXCEPT !.pm = "main"]
               /\ main' = [main EXCEPT !.pc = "persist_rlock"]
       /\ UNCHANGED <<c, files, ret, authVars, rt, tee, route, procs, cm>>
    \/ \* c.mu.RLock() and the copy of the list (lru.go:252-256)
       /\ main.pc = "persist_rlock"
       /\ mu.w = ""
       /\ mu' = [mu EXCEPT !.r = @ \cup {"main"}]
       /\ main' = [pc |-> "persist_runlock", entries |-> c.ll]
       /\ UNCHANGED <<c, files, ret, authVars, rt, tee, route, procs, cm>>
    \/ \* c.mu.RUnlock()
       /\ main.pc = "persist_runlock"
       /\ mu' = [mu EXCEPT !.r = @ \ {"main"}]
       /\ main' = [main EXCEPT !.pc = "persist_write"]
       /\ UNCHANGED <<c, files, ret, authVars, rt, tee, route, procs, cm>>
    \/ \* the temp file, the rename, the dirty flag, the deferred Unlock of
       \* persistMu (lru.go:259-295) and the return of main
       /\ main.pc = "persist_write"
       /\ \E r \in {PersistWrite([c EXCEPT !.ll = main.entries], files,
                                 "none")} :
              /\ c' = [c EXCEPT !.persistDirty = r.c.persistDirty]
              /\ files' = r.files
       /\ mu' = [mu EXCEPT !.pm = ""]
       /\ main' = [pc |-> "exited", entries |-> <<>>]
       /\ UNCHANGED <<ret, authVars, rt, tee, route, procs, cm>>

\* Nothing runs once main has returned.
SpecLock ==
    Init /\ [][/\ main.pc # "exited"
               /\ \/ \E p \in DOMAIN procs :
                        \/ LockPut(p) \/ LockEvict(p) \/ LockGetReader(p)
                        \/ LockRemove(p) \/ LockClear(p) \/ LockStats(p)
                  \/ LockPersist]_vars

\* No Clear, no Stats and no shutdown: the calls a Put is said to be
\* linearizable with.
SpecLin ==
    Init /\ [][\E p \in DOMAIN procs :
                  \/ LockPut(p) \/ LockEvict(p) \/ LockGetReader(p)
                  \/ LockRemove(p)]_vars


----------------------------------------------------------------------------
(* SpecRoute: one inbound request at the proxy handler, under each        *)
(* configuration                                                           *)

InitRoute ==
    /\ c = NewLRUCache(MaxSize, CacheDir)
    /\ files = NoFiles
    /\ ret = NoRet
    /\ tokenCache = NoTokens
    /\ now = 0
    /\ static = FALSE
    /\ rt = NoRt
    /\ tee = NoTee
    /\ procs = NoProcs
    /\ mu = NoLocks
    /\ main = NoMain
    /\ cm = NoCaches
    \* The configurations: registries holds none, one or both of ghcr.io and
    \* the default registry, each with its own insecure setting.
    /\ \E w \in BOOLEAN, d \in {Nil, "true", "false"} :
         \E r \in UNION { [names -> [Insecure : {Nil, "true", "false"},
                                      CacheDir : {""}, CacheMaxSize : {0}]] :
                            names \in SUBSET {"ghcr.io", Host} } :
           \* The inbound paths: registry API paths with and without a
           \* registry host, with and without a trailing slash, and paths
           \* outside /v2/.
           \E path \in
               { PathOf(<<"v2", "ghcr.io", "owner", "img", "manifests", "latest">>),
                 PathOf(<<"v2", "quay.io", "foo", "manifests", "latest">>),
                 PathOf(<<"v2", "nginx", "manifests", "latest">>),
                 PathOf(<<"v2", "library", "alpine", "manifests", "latest">>),
                 PathOf(<<"v2", "owner", "img", "blobs", ActualDigest(<<"a">>)>>),
                 PathOf(<<"v2", "ghcr.io", "owner", "img", "blobs", "uploads">>)
                     \o <<Slash>>,
                 PathOf(<<"v2", "nginx", "blobs", "uploads">>) \o <<Slash>>,
                 PathOf(<<"v2", "ghcr.io">>),
                 PathOf(<<"v2", "ghcr.io">>) \o <<Slash>>,
                 PathOf(<<"v2", "nginx">>),
                 PathOf(<<"v2">>) \o <<Slash>>,
                 PathOf(<<"v1", "ghcr.io", "img">>),
                 PathOf(<<"index.html">>),
                 <<Slash>> } :
             \E authorization \in {NoAuthorization, BasicAuthorization},
                a \in BOOLEAN :
                 route = [NoRoute EXCEPT
                            !.cfg = applyDefaults(RawConfig(w, d, r)),
                            !.req.Path = path,
                            !.req.Authorization = authorization,
                            !.authenticated = a]

\* The handler serves the inbound request.
ServeHTTP ==
    /\ route.res = NoRoute.res
    /\ route' = [route EXCEPT
                   !.res = proxyHandler(route.cfg, route.req,
                                        route.authenticated)]
    /\ UNCHANGED <<c, files, ret, authVars, rt, tee, procs, mu, main, cm>>

SpecRoute == InitRoute /\ [][ServeHTTP]_vars

----------------------------------------------------------------------------
(* SpecMgr: goroutines calling CacheManager.GetCache at the same time,    *)
(* under each configuration of the cache directories.  cm.caches maps a   *)
(* host to its instance: id numbers the stores into the map, failed says  *)
(* whether NewLRUCache returned an error and c is the Cache.              *)

\* The configurations: the defaults with or without a cache_dir, and
\* ghcr.io, the default registry, both or none configured, each with no
\* cache_dir of its own, with the defaults' or with another.
InitMgr ==
    /\ c = NewLRUCache(MaxSize, CacheDir)
    /\ files = NoFiles
    /\ ret = NoRet
    /\ tokenCache = NoTokens
    /\ now = 0
    /\ static = FALSE
    /\ rt = NoRt
    /\ tee = NoTee
    /\ procs = NoProcs
    /\ mu = NoLocks
    /\ main = NoMain
    /\ cm = NoCaches
    /\ \E d \in {"", CacheDir} :
         \E r \in UNION { [names -> [Insecure : {Nil},
                                     CacheDir : {"", CacheDir, "/cache/own"},
                                     CacheMaxSize : {0}]] :
                            names \in SUBSET {"ghcr.io", Host} } :
           route = [NoRoute EXCEPT
                      !.cfg = applyDefaults(
                                 [RawConfig(FALSE, Nil, r)
                                    EXCEPT !.Defaults.CacheDir = d])]

\* GetCache without the second lookup.
GetCache_NoRecheck(p) ==
    \/ \E registryHost \in {"ghcr.io", "quay.io", Host} :
          /\ procs[p].pc = "idle"
          /\ cm.mu = ""
          /\ IF registryHost \in DOMAIN cm.caches
             THEN /\ cm' = [cm EXCEPT !.got = @ \cup
                               {<<registryHost, cm.caches[registryHost].id>>}]
                  /\ UNCHANGED procs
             ELSE /\ procs' = [procs EXCEPT ![p].pc = "gc_lock",
                                            ![p].key = registryHost]
                  /\ UNCHANGED cm
          /\ UNCHANGED <<c, files, ret, authVars, rt, tee, route, mu, main>>
    \/ /\ procs[p].pc = "gc_lock"
       /\ cm.mu = ""
       /\ cm' = [cm EXCEPT !.mu = p]
       /\ procs' = [procs EXCEPT ![p].pc = "gc_locked"]
       /\ UNCHANGED <<c, files, ret, authVars, rt, tee, route, mu, main>>
    \/ \E mkdirFails \in BOOLEAN :
          /\ procs[p].pc = "gc_locked"
          /\ LET registryHost == procs[p].key
                 settings == GetRegistrySettings(route.cfg, registryHost)
                 failed == mkdirFails /\ settings.CacheDir # ""
                 newCache == [id |-> Len(cm.made) + 1, failed |-> failed,
                              c |-> IF failed THEN NewLRUCache(0, "")
                                    ELSE NewLRUCache(settings.CacheMaxSize,
                                                     settings.CacheDir)]
             IN  cm' = [caches |-> [h \in DOMAIN cm.caches \cup {registryHost}
                                      |-> IF h = registryHost THEN newCache
                                          ELSE cm.caches[h]],
                        mu |-> "",
                        made |-> Append(cm.made, registryHost),
                        got |-> cm.got \cup {<<registryHost, newCache.id>>}]
          /\ procs' = [procs EXCEPT ![p] = IdleProc]
          /\ UNCHANGED <<c, files, ret, authVars, rt, tee, route, mu, main>>

\* CacheManager.GetCache (part_001:184-210).  The cache directory of a
\* first construction holds no persistence file.
GetCache(p) ==
    \/ \E registryHost \in {"ghcr.io", "quay.io", Host} :
          \* the lookup under RLock (part_001:185-190)
          /\ procs[p].pc = "idle"
          /\ cm.mu = ""
          /\ IF registryHost \in DOMAIN cm.caches
             THEN /\ cm' = [cm EXCEPT !.got = @ \cup
                               {<<registryHost, cm.caches[registryHost].id>>}]
                  /\ UNCHANGED procs
             ELSE /\ procs' = [procs EXCEPT ![p].pc = "gc_lock",
                                            ![p].key = registryHost]
                  /\ UNCHANGED cm
          /\ UNCHANGED <<c, files, ret, authVars, rt, tee, route, mu, main>>
    \/ \* cm.mu.Lock() (part_001:192)
       /\ procs[p].pc = "gc_lock"
       /\ cm.mu = ""
       /\ cm' = [cm EXCEPT !.mu = p]
       /\ procs' = [procs EXCEPT ![p].pc = "gc_locked"]
       /\ UNCHANGED <<c, files, ret, authVars, rt, tee, route, mu, main>>
    \/ \E mkdirFails \in BOOLEAN :
          \* the second lookup, the construction, the store and the
          \* deferred Unlock (part_001:193-209)
          /\ procs[p].pc = "gc_locked"
          /\ LET registryHost == procs[p].key
                 settings == GetRegistrySettings(route.cfg, registryHost)
                 failed == mkdirFails /\ settings.CacheDir # ""
                 newCache == [id |-> Len(cm.made) + 1, failed |-> failed,
                              c |-> IF failed THEN NewLRUCache(0, "")
                                    ELSE NewLRUCache(settings.CacheMaxSize,
                                                     settings.CacheDir)]
             IN  IF registryHost \in DOMAIN cm.caches
                 THEN cm' = [cm EXCEPT
                               !.mu = "",
                               !.got = @ \cup {<<registryHost,
                                                cm.caches[registryHost].id>>}]
                 ELSE cm' = [caches |->
                               [h \in DOMAIN cm.caches \cup {registryHost}
                                  |-> IF h = registryHost THEN newCache
                                      ELSE cm.caches[h]],
                             mu |-> "",
                             made |-> Append(cm.made, registryHost),
                             got |-> cm.got \cup
                                       {<<registryHost, newCache.id>>}]
          /\ procs' = [procs EXCEPT ![p] = IdleProc]
          /\ UNCHANGED <<c, files, ret, authVars, rt, tee, route, mu, main>>

SpecMgr == InitMgr /\ [][\E p \in DOMAIN procs : GetCache(p)]_vars

----------------------------------------------------------------------------
(* SpecLoad: the constructor on a cache directory whose persistence file  *)
(* may be damaged                                                          *)

\* The directory: the blobs <<"a">> and <<"b">>, each there or not, and a
\* persistence file of up to three lines, each the entry of one of the
\* blobs with its size or with another, a line that does not decode or a
\* line too long to scan; no two lines are entries of the same key.
InitLoad ==
    /\ c = NewLRUCache(MaxSize, CacheDir)
    /\ ret = NoRet
    /\ tokenCache = NoTokens
    /\ now = 0
    /\ static = FALSE
    /\ rt = NoRt
    /\ tee = NoTee
    /\ route = NoRoute
    /\ procs = NoProcs
    /\ mu = NoLocks
    /\ main = NoMain
    /\ cm = NoCaches
    /\ \E blobs \in SUBSET {<<"a">>, <<"b">>}, n \in 0..3 :
         \E lines \in [1..n ->
                         {EncodeEntry([Key |-> ActualDigest(b), Size |-> k]) :
                             b \in {<<"a">>, <<"b">>}, k \in 1..2}
                         \cup {<<"garbage">>, <<"too long">>}] :
           /\ \A i \in 1..n : \A j \in 1..n :
                 (i # j /\ Len(lines[i]) = 4 /\ Len(lines[j]) = 4)
                     => lines[i][2] # lines[j][2]
           /\ files = [name \in {ActualDigest(b) : b \in blobs}
                                  \cup {PersistenceName} |->
                         IF name = PersistenceName THEN lines
                         ELSE CHOOSE b \in blobs : ActualDigest(b) = name]

SpecLoad == InitLoad /\ [][Restart]_vars

----------------------------------------------------------------------------
(* SpecTok: two goroutines in AuthMiddleware.Process for the same         *)
(* repository at the same time, with a clock.  A step is one operation on *)
(* the sync.Map, with what the goroutine does from there to its next one. *)

\* AuthMiddleware.Process (middleware_auth.go:35-42) of a GET of the
\* manifest, for a registry without static credentials: the Load of
\* tryApplyCachedToken with the test of the expiry, its Delete, and next
\* with handleAuthChallenge, whose fetchTokenAndRetry does the Store when
\* the upstream answers with a Bearer challenge and the token endpoint
\* with a token, of the default lifetime or of one or two seconds.
ConcProcess(p) ==
    LET req == Request("GET", ManifestPath)
        cacheKey == CacheKey(req.Host, getScopeFromRequest(req))
    IN  \/ \* tokenCache.Load and time.Now().After (lines 79-88)
           /\ procs[p].pc = "idle"
           /\ procs' = [procs EXCEPT ![p].pc =
                          IF /\ cacheKey \in DOMAIN tokenCache
                             /\ now > tokenCache[cacheKey].expiresAt
                          THEN "token_delete" ELSE "next"]
           /\ UNCHANGED <<c, files, ret, authVars, rt, tee, route, mu, main,
                          cm>>
        \/ \* tokenCache.Delete (line 89)
           /\ procs[p].pc = "token_delete"
           /\ tokenCache' = [k \in DOMAIN tokenCache \ {cacheKey} |->
                               tokenCache[k]]
           /\ procs' = [procs EXCEPT ![p].pc = "next"]
           /\ UNCHANGED <<c, files, ret, now, static, rt, tee, route, mu,
                          main, cm>>
        \/ \* next(req) and handleAuthChallenge (lines 37-41)
           /\ procs[p].pc = "next"
           /\ \E up1 \in {Up("resp", Nil, StatusOK, NoHeader),
                          Up("resp", Nil, StatusUnauthorized,
                             BearerScope(<<"library", "alpine">>))},
                 tok \in {Tok("json", "T1", "", 0), Tok("json", "", "T2", 1),
                          Tok("json", "T3", "", 2)} :
                \E r \in {handleAuthChallenge(
                              tokenCache, now, req, UpstreamResp(1, up1), tok,
                              Up("resp", Nil, StatusOK, NoHeader))} :
                    tokenCache' = r.tokenCache
           /\ procs' = [procs EXCEPT ![p].pc = "idle"]
           /\ UNCHANGED <<c, files, ret, now, static, rt, tee, route, mu,
                          main, cm>>

SpecTok == Init /\ [][(\E p \in DOMAIN procs : ConcProcess(p)) \/ Tick]_vars

----------------------------------------------------------------------------
(* SpecTee: the wrapped body of one blob miss with the pipe's rendezvous  *)
(* in steps.  The client reads and closes the body; goroutine p1 is the   *)
(* one cacheResponse starts, in Put; goroutine p2 calls the cache.        *)

\* After cacheResponse (proxy.go:237-265) has wrapped the body of a 200
\* answer to a GET of a blob, for a cache with a directory or without one.
InitTee ==
    /\ \E dir \in {CacheDir, ""} : c = NewLRUCache(MaxSize, dir)
    /\ files = NoFiles
    /\ ret = NoRet
    /\ tokenCache = NoTokens
    /\ now = 0
    /\ static = FALSE
    /\ rt = NoRt
    /\ \E body \in LockBodies :
         tee = [NoTee EXCEPT !.active = TRUE, !.digest = ActualDigest(body),
                             !.body = body, !.pc = "create"]
    /\ route = NoRoute
    /\ procs = NoProcs
    /\ mu = NoLocks
    /\ main = NoMain
    /\ cm = NoCaches

\* cacheWriter.Read (proxy.go:291-293), which is teeReader.Read: a read of
\* the upstream body, which yields bytes, the end or an error, and a
\* pw.Write of the bytes, which returns when the pipe's reader has taken
\* them all or when the read side is closed.
TeeRead ==
    /\ tee.active /\ UNCHANGED <<c, files, ret, authVars, rt, route, procs,
                                  mu, main, cm>>
    /\ \/ \* src.Read
          /\ tee.rd = "idle" /\ ~tee.closed /\ tee.cerr = Nil /\ ~tee.eof
          /\ \/ \E n \in 1..(Len(tee.body) - tee.pos) :
                  tee' = [tee EXCEPT !.pos = @ + n, !.wr = n, !.rd = "write"]
             \/ /\ tee.pos = Len(tee.body)
                /\ tee' = [tee EXCEPT !.eof = TRUE]
             \/ tee' = [tee EXCEPT !.upErr = TRUE, !.cerr = "unexpected EOF"]
       \/ \* the return of pw.Write
          /\ tee.rd = "write"
          /\ \/ /\ tee.wr = 0
                /\ tee' = [tee EXCEPT !.rd = "idle"]
             \/ /\ tee.wr > 0 /\ tee.prClosed
                /\ tee' = [tee EXCEPT !.rd = "idle", !.wr = 0,
                              !.cerr = "io: read/write on closed pipe"]

\* The goroutine of cacheResponse (proxy.go:251-258) from io.Copy on:
\* Put's reads of the pipe with the writes to the temp file
\* (lru.go:116-118, 133-136), its steps from the pipe's EOF to the rename
\* (lru.go:138-155), after which LockPut and LockEvict model it, and the
\* deferred pr.Close().
TeeCopy ==
    /\ tee.active
    /\ \/ \* pr.Read takes bytes of the pending pw.Write
          /\ tee.pc \in {"copy", "drain"} /\ ~tee.prClosed
          /\ tee.rd = "write" /\ tee.wr > 0
          /\ \E k \in 1..tee.wr, fault \in {"none", "write"} :
               LET from == tee.pos - tee.wr
                   chunk == SubSeq(tee.body, from + 1, from + k)
               IN  IF tee.pc = "drain"
                   THEN /\ tee' = [tee EXCEPT !.wr = @ - k]
                        /\ files' = files
                   ELSE IF fault = "write"
                   THEN /\ tee' = [tee EXCEPT
                                     !.wr = @ - k, !.pc = "done",
                                     !.putErr = "failed to write to temp file",
                                     !.prClosed = TRUE]
                        /\ files' = PutCleanup(files)
                   ELSE /\ tee' = [tee EXCEPT !.wr = @ - k]
                        /\ files' = WriteFile(files, TmpName,
                                              files[TmpName] \o chunk)
          /\ UNCHANGED procs
       \/ \* pr.Read returns io.EOF: the write side is closed
          /\ tee.pc \in {"copy", "drain"} /\ tee.closed /\ tee.rd = "idle"
          /\ \E fault \in {"none", "sync", "rename"} :
               LET data == IF tee.pc = "copy" THEN files[TmpName] ELSE <<>>
                   err == IF tee.pc = "drain" THEN Nil
                          ELSE IF fault = "sync"
                          THEN "failed to sync temp file"
                          ELSE IF ActualDigest(data) # tee.digest
                          THEN "digest mismatch"
                          ELSE IF c.maxSize > 0 /\ Len(data) > c.maxSize
                          THEN Nil
                          ELSE IF fault = "rename"
                          THEN "failed to move cached file"
                          ELSE "renamed"
               IN  IF err = "renamed"
                   THEN /\ files' = RenameFile(files, TmpName, tee.digest)
                        /\ tee' = [tee EXCEPT !.pc = "index"]
                        /\ procs' = [procs EXCEPT !["p1"] =
                                       [IdleProc EXCEPT !.pc = "put_lock",
                                                        !.key = tee.digest,
                                                        !.data = data]]
                   ELSE /\ files' = IF tee.pc = "drain" THEN files
                                    ELSE PutCleanup(files)
                        /\ tee' = [tee EXCEPT !.pc = "done", !.putErr = err,
                                              !.prClosed = TRUE]
                        /\ procs' = procs
       \/ \* Put has returned nil: pr.Close()
          /\ tee.pc = "index" /\ procs["p1"].pc = "idle"
          /\ tee' = [tee EXCEPT !.pc = "done", !.prClosed = TRUE]
          /\ UNCHANGED <<files, procs>>
    /\ UNCHANGED <<c, ret, authVars, rt, route, mu, main, cm>>

\* The client reads and closes as it likes, and closes when no Read is in
\* progress.  p1 takes the steps of LockPut and LockEvict once its blob is
\* renamed.  p2 calls Stats and Put; the model has one temp file name, so
\* p2 starts no Put while p1 has its temp file.  A goroutine that can take
\* a step takes one, and sync.Mutex hands the lock to a goroutine that has
\* waited long for it.
SpecTee ==
    /\ InitTee
    /\ [][\/ TeeRead
          \/ tee.rd = "idle" /\ CwClose
          \/ PutStart
          \/ TeeCopy
          \/ procs["p1"].pc # "idle" /\ (LockPut("p1") \/ LockEvict("p1"))
          \/ LockStats("p2")
          \/ /\ procs["p2"].pc = "idle" => TmpName \notin DOMAIN files
             /\ LockPut("p2")
          \/ LockEvict("p2")]_vars
    /\ WF_vars(tee.rd = "write" /\ TeeRead)
    /\ WF_vars(PutStart)
    /\ WF_vars(TeeCopy)
    /\ SF_vars(procs["p1"].pc # "idle" /\ (LockPut("p1") \/ LockEvict("p1")))
    /\ WF_vars(procs["p2"].pc # "idle"
                 /\ (LockStats("p2") \/ LockPut("p2") \/ LockEvict("p2")))

----------------------------------------------------------------------------
(* Claims about the cache's API, checked under Spec *)

\* C1: a GetReader that reports a hit returns the bytes last successfully
\* put for its key, and their length as the size: the stream's SHA-256
\* digest string is the key.  Equivalently every indexed key names a file
\* whose digest string is the key (and whose length is the entry's size).
C1_HitReturnsPutBytes ==
    /\ (ret.op = "GetReader" /\ ret.ok) =>
          /\ ActualDigest(ret.reader) = ret.key
          /\ ret.size = Len(ret.reader)
    /\ \A key \in c.cache :
          /\ FileExists(files, key)
          /\ ActualDigest(files[key]) = key
          /\ c.ll[ElementOf(c.ll, key)].Size = Len(files[key])

\* A hit on a non-empty blob while another blob is indexed too.
C1_Witness ==
    /\ ret.op = "GetReader" /\ ret.ok
    /\ Len(ret.reader) > 0
    /\ Cardinality(c.cache) >= 2

\* C2: a Put whose bytes do not hash to the expected digest fails, with the
\* digest-mismatch error unless the temp file could not be created, written
\* or synced, and leaves the cache (index, recency list, size, counters) and
\* the directory (no file created or replaced, no temp file left) as they
\* were before the call.
C2_MismatchChangesNothing ==
    [][(ret'.op = "Put" /\ ActualDigest(ret'.data) # ret'.key) =>
          /\ ret'.err # Nil
          /\ ret'.fault \in {"none", "rename"} => ret'.err = "digest mismatch"
          /\ c' = c
          /\ files' = files]_vars

\* A digest mismatch on a Put of a key that is indexed, among other keys.
C2_Witness ==
    /\ ret.op = "Put" /\ ret.err = "digest mismatch"
    /\ ret.key \in c.cache
    /\ Cardinality(c.cache) >= 2

----------------------------------------------------------------------------
(* Claims about the cache interceptor and the tee, checked under SpecPipe *)

\* C3: on a blob miss whose 200 response is wrapped, a failure of the
\* background Put never surfaces to the client: a Read of the wrapped body
\* returns an error only when the read of the upstream body returned it.
C3_PutFailureUnseen ==
    (tee.active /\ tee.cerr # Nil) => (tee.upErr /\ tee.cerr = "unexpected EOF")

\* The step on which the background Put returns, having read only a part
\* of the body of a blob that has the digest the request names.
C4_TruncatedPutReturns ==
    /\ tee.pc # "done" /\ tee'.pc = "done"
    /\ tee'.closed
    /\ tee'.pos < Len(tee'.body)
    /\ ActualDigest(tee'.body) = tee'.digest

C5_HitServedWithoutNext ==
    [][(/\ rt'.n # rt.n
        /\ rt'.req.Method = "GET"
        /\ Len(rt'.req.Path) >= 4
        /\ rt'.req.Path[Len(rt'.req.Path) - 1] = "blobs"
        /\ rt'.req.Path[Len(rt'.req.Path)] \in c.cache) =>
          LET digest == rt'.req.Path[Len(rt'.req.Path)]
          IN  /\ rt'.served /\ rt'.err = Nil
              /\ rt'.resp.id = 0
              /\ rt'.resp.StatusCode = 200
              /\ rt'.resp.ContentLength = c.ll[ElementOf(c.ll, digest)].Size
              /\ rt'.resp.ContentLength = Len(files[digest])
              /\ rt'.next = <<>> /\ rt'.sent = <<>> /\ rt'.tokenCalls = 0
              /\ c'.hits = c.hits + 1
              /\ c'.misses = c.misses
              /\ ~tee'.active]_vars

\* The second request is a hit on a blob of two bytes.
C5_Witness ==
    /\ rt.served /\ rt.n = 2
    /\ rt.resp.ContentLength = 2
    /\ c.hits = 1

\* Not a blob request, in the words of the claim.
C6_NotBlob(req) ==
    \/ req.Method # "GET"
    \/ ~(Len(req.Path) >= 4 /\ req.Path[Len(req.Path) - 1] = "blobs")

C9_ErrorsPropagate ==
    /\ \A i \in 1..Len(rt.got) :
          rt.got[i].err # Nil =>
             /\ rt.next[1].err = rt.got[i].err
             /\ rt.next[1].resp = NoResp
    /\ (Len(rt.next) = 1 /\ rt.next[1].err # Nil) =>
          /\ rt.err = rt.next[1].err
          /\ rt.resp = NoResp

----------------------------------------------------------------------------
(* Claims about the auth interceptor, checked under SpecAuth *)

\* The first answer is a 401 or 403 with a Bearer challenge.
BearerChallenged(r) ==
    /\ Len(r.got) >= 1
    /\ r.got[1].err = Nil
    /\ r.got[1].resp.StatusCode \in {401, 403}
    /\ ToLower(r.got[1].resp.Www.scheme) = "bearer"
    /\ Len(r.got[1].resp.Www.params) > 0

\* The value of the last parameter of that name of a challenge, lowercased.
ChallengeParam(header, name) ==
    LET idx == {i \in 1..Len(header.params) : ToLower(header.params[i][1]) = name}
    IN  IF idx = {} THEN <<>>
        ELSE ToLowerAll(header.params[CHOOSE i \in idx : \A j \in idx : j <= i][2])

\* The token endpoint's answer holds a token.
HoldsToken(tok) ==
    tok.kind = "json" /\ (tok.Token # "" \/ tok.AccessToken # "")

TokenOf(tok) == IF tok.Token # "" THEN tok.Token ELSE tok.AccessToken

\* C7: one request through the auth interceptor invokes next at most twice
\* and calls the token endpoint at most once; after a Bearer challenge with
\* a realm and a successful token fetch the request is retried exactly once,
\* with Authorization: Bearer <token> and otherwise as first sent, and what
\* the retry returns is the result, also when it is a challenge again.
C7_AtMostOneRetry ==
    /\ Len(rt.sent) <= 2
    /\ rt.tokenCalls <= 1
    /\ Len(rt.sent) = 2 =>
          /\ BearerChallenged(rt)
          /\ rt.tokenCalls = 1 /\ HoldsToken(rt.tok)
          /\ rt.sent[2] = [rt.sent[1] EXCEPT
                              !.Authorization = <<"Bearer", TokenOf(rt.tok)>>]
          /\ rt.got[2].err = Nil =>
                (rt.err = Nil /\ rt.resp = rt.got[2].resp /\ rt.resp.id = 2)
    /\ (/\ BearerChallenged(rt)
        /\ ChallengeParam(rt.got[1].resp.Www, "realm") # <<>>
        /\ HoldsToken(rt.tok)) => Len(rt.sent) = 2

\* The retried request was answered with a challenge again.
C7_Witness ==
    /\ Len(rt.sent) = 2
    /\ rt.resp.id = 2
    /\ rt.resp.StatusCode = 401

\* Challenge recovery could not obtain a token.
C8_NoToken(r) ==
    /\ BearerChallenged(r)
    /\ \/ \A i \in 1..Len(r.got[1].resp.Www.params) :
             ToLower(r.got[1].resp.Www.params[i][1]) # "realm"
       \/ r.tok.kind \in {"unreachable", "status", "malformed"}
       \/ (r.tok.kind = "json" /\ r.tok.Token = "" /\ r.tok.AccessToken = "")

\* C8: when challenge recovery cannot obtain a token, the auth interceptor
\* returns the original challenge response, its body open, and no error;
\* it does not invoke next again and stores nothing in the token cache.
C8_NoTokenReturnsChallenge ==
    [][(rt = NoRt /\ rt' # NoRt /\ C8_NoToken(rt')) =>
          /\ rt'.err = Nil
          /\ rt'.resp = rt'.got[1].resp
          /\ rt'.resp.id = 1 /\ ~rt'.resp.bodyClosed
          /\ Len(rt'.sent) = 1
          /\ \A k \in DOMAIN tokenCache' :
                k \in DOMAIN tokenCache /\ tokenCache'[k] = tokenCache[k]]_vars

\* The token endpoint answered with a status other than 200 while a token
\* of an earlier request is cached.
C8_Witness ==
    /\ C8_NoToken(rt)
    /\ rt.tok.kind = "status"
    /\ rt.resp.id = 1
    /\ tokenCache # NoTokens

\* A challenge recovery: the retry was sent.
Recovered(r) == Len(r.sent) = 2

C11_LookupFinds ==
    /\ rt = NoRt /\ rt' # NoRt
    /\ getScopeFromRequest(rt'.req) # NoScope
    /\ <<rt'.req.Host, getScopeFromRequest(rt'.req)>> \in DOMAIN tokenCache

\* C11 as stated: a token stored for a host and scope is attached to every
\* request of that host and scope issued before its expires_in seconds have
\* elapsed.
C11_FreshTokenAttached ==
    [][C11_LookupFinds =>
          LET entry == tokenCache[<<rt'.req.Host, getScopeFromRequest(rt'.req)>>]
          IN  now < entry.expiresAt =>
                 rt'.sent[1].Authorization = <<"Bearer", entry.token>>]_vars

\* C11, corrected: a token fetched with expires_in = t is stored with the
\* expiry now + t, t = 60 when expires_in is zero.  On a host without static
\* credentials the stored token is attached to the requests of its host and
\* scope issued up to the expiry; a request issued after the expiry goes out
\* without Authorization and the entry is deleted (the same request may
\* store a new one).  No request carries a bearer token on its first
\* attempt other than the unexpired token stored under its host and scope.
C11_TokenExpiry ==
    [][/\ (rt = NoRt /\ rt' # NoRt /\ Recovered(rt')) =>
            \E k \in DOMAIN tokenCache' :
                /\ tokenCache'[k].token = TokenOf(rt'.tok)
                /\ tokenCache'[k].expiresAt =
                      now + (IF rt'.tok.ExpiresIn = 0 THEN 60 ELSE rt'.tok.ExpiresIn)
       /\ (C11_LookupFinds /\ ~static) =>
            LET key == <<rt'.req.Host, getScopeFromRequest(rt'.req)>>
                entry == tokenCache[key]
            IN  /\ now <= entry.expiresAt =>
                      rt'.sent[1].Authorization = <<"Bearer", entry.token>>
                /\ now > entry.expiresAt =>
                      /\ rt'.sent[1].Authorization = <<>>
                      /\ \/ key \notin DOMAIN tokenCache'
                         \/ /\ Recovered(rt')
                            /\ tokenCache'[key].token = TokenOf(rt'.tok)
                            /\ tokenCache'[key].expiresAt > now
       /\ (rt = NoRt /\ rt' # NoRt /\ Len(rt'.sent[1].Authorization) = 2
              /\ rt'.sent[1].Authorization[1] = "Bearer") =>
            /\ C11_LookupFinds /\ ~static
            /\ LET entry == tokenCache[<<rt'.req.Host, getScopeFromRequest(rt'.req)>>]
               IN  /\ rt'.sent[1].Authorization[2] = entry.token
                   /\ now <= entry.expiresAt]_vars

\* A token stored with expires_in = 1 at time 0 is attached at time 1, the
\* last moment before it expires.
C11_Witness ==
    /\ now = 1
    /\ rt # NoRt
    /\ rt.sent[1].Authorization = <<"Bearer", "T2">>
    /\ <<rt.req.Host, getScopeFromRequest(rt.req)>> \in DOMAIN tokenCache
    /\ tokenCache[<<rt.req.Host, getScopeFromRequest(rt.req)>>].expiresAt = 1

----------------------------------------------------------------------------
(* Claims about routing, checked under SpecRoute *)

\* C12: in whitelist mode no request whose target registry, as the director
\* derives it, is missing from the configured registries reaches the
\* pipeline: for every inbound path the registry the whitelist gate looks up
\* is the host the director routes to, a request the reverse proxy is handed
\* goes to a configured registry, and a request for a registry that is not
\* configured is answered before the reverse proxy, with 403 by the gate
\* once it is past the web files and the proxy's own authentication.
C12_GateMatchesDirector ==
    route.res # NoRoute.res =>
        LET cfg == route.cfg
            target == newDirector(cfg, route.req).Host
        IN  /\ gateRegistry(cfg, route.req) = target
            /\ (cfg.WhitelistMode /\ route.res.handler = "proxy") =>
                  /\ target \in DOMAIN cfg.Registries
                  /\ route.res.out.Host = target
            /\ (cfg.WhitelistMode /\ target \notin DOMAIN cfg.Registries) =>
                  /\ route.res.handler # "proxy"
                  /\ route.res.out = NoOut
                  /\ route.res.handler \notin {"web", "requireAuth"} =>
                        /\ route.res.handler = "gate"
                        /\ route.res.wrote = <<StatusForbidden>>

\* Whitelist mode with only ghcr.io configured: a request for quay.io has
\* been answered 403 by the gate.
C12_Witness ==
    /\ route.cfg.WhitelistMode
    /\ DOMAIN route.cfg.Registries = {"ghcr.io"}
    /\ route.req.Path
         = PathOf(<<"v2", "quay.io", "foo", "manifests", "latest">>)
    /\ route.res.handler = "gate"
    /\ route.res.wrote = <<StatusForbidden>>
    /\ route.res.out = NoOut

\* C13 as stated: the director maps /v2/<seg>/<rest> with a dot in <seg> to
\* host <seg> and path /v2/<rest>, /v2/<name>/<rest> with no dot in <name>
\* to the default registry and path /v2/library/<name>/<rest>, and every
\* other path to the default registry with the path unchanged; it removes
\* the Authorization header and the scheme is http iff the target registry
\* is marked insecure.
C13_DirectorMapping ==
    route.res.handler = "proxy" =>
        LET cfg == route.cfg
            path == route.req.Path
            out == route.res.out
            shaped == /\ Len(path) >= 5
                      /\ SubSeq(path, 1, 3) = <<Slash, "v2", Slash>>
                      /\ path[4] # Slash
                      /\ path[5] = Slash
            rest == SubSeq(path, 6, Len(path))
            host == IF shaped /\ ContainsDot(path[4]) THEN path[4]
                    ELSE cfg.DefaultRegistry
        IN  /\ out.Host = host
            /\ out.Path = IF shaped /\ ContainsDot(path[4])
                          THEN <<Slash, "v2", Slash>> \o rest
                          ELSE IF shaped
                          THEN <<Slash, "v2", Slash, "library", Slash,
                                 path[4], Slash>> \o rest
                          ELSE path
            /\ out.Authorization = NoAuthorization
            /\ out.Scheme = "http"
                 <=> GetRegistrySettings(cfg, host).Insecure = "true"

----------------------------------------------------------------------------
(* Claims about the index and persistence, checked under SpecPersist *)

\* C14: in every state between calls (after load and any sequence of Put,
\* GetReader, Remove, Clear and evictions) the key map and the recency list
\* hold the same entries, at most one per key, the size counter is the sum
\* of the entries' sizes, and the item count Stats reports is the number of
\* keys.
C14_IndexConsistent ==
    /\ {c.ll[i].Key : i \in 1..Len(c.ll)} = c.cache
    /\ \A i, j \in 1..Len(c.ll) : c.ll[i].Key = c.ll[j].Key => i = j
    /\ c.size = SumSizes(c.ll)
    /\ Stats(c).CurrentSize = SumSizes(c.ll)
    /\ Stats(c).Items = Cardinality(c.cache)

\* A cache constructed on a directory left behind has loaded two entries.
C14_Witness ==
    /\ ret.op = "NewLRUCache"
    /\ Len(c.ll) = 2
    /\ c.size = 2

\* C15 as stated: after any operation (the constructor with load, Put,
\* GetReader, Remove, Clear) the current size is at most max_size whenever
\* max_size > 0 and an entry remains, and no entry larger than max_size is
\* in the index.
C15_SizeBound ==
    (c.maxSize > 0 /\ Len(c.ll) > 0) =>
        /\ c.size <= c.maxSize
        /\ \A i \in 1..Len(c.ll) : c.ll[i].Size <= c.maxSize

\* C16: eviction is strict LRU from the tail.  A Put that returns no error
\* leaves its key at the front followed by the entries of before in their
\* order, less a tail: the entries evicted are the least recently used ones,
\* no more of them than the size bound needs, the file of each is deleted
\* and the eviction counter grows by their number.  A GetReader hit moves
\* its key to the front and keeps the order of the others; no other call
\* changes the order or the eviction counter.
C16_StrictLRU ==
    [][LET k == ret'.key
           others == SelectSeq(c.ll, LAMBDA e : e.Key # k)
       IN  /\ (ret'.op = "Put" /\ ret'.err = Nil) =>
                 LET full == <<c'.ll[1]>> \o others
                     n == Len(c'.ll)
                 IN  /\ c'.ll[1].Key = k
                     /\ c'.ll = SubSeq(full, 1, n)
                     /\ c'.evictions = c.evictions + (Len(full) - n)
                     /\ \A i \in 1..Len(full) :
                           FileExists(files', full[i].Key) <=> i <= n
                     /\ c'.size <= c'.maxSize
                     /\ n < Len(full) =>
                           c'.size + full[n + 1].Size > c'.maxSize
           /\ (ret'.op = "GetReader" /\ ret'.ok) =>
                 /\ c'.ll = <<c.ll[ElementOf(c.ll, k)]>> \o others
                 /\ c'.evictions = c.evictions
           /\ (ret'.op \in {"GetReader", "Remove", "Clear", "Persist"}) =>
                 /\ c'.evictions = c.evictions
                 /\ files' = files \/ ret'.op # "GetReader"
           /\ ret'.op = "Remove" =>
                 c'.ll = SelectSeq(c.ll, LAMBDA e : e.Key \in c'.cache)]_vars

\* Two blobs fill the cache, the older is hit, and the Put of a third evicts
\* the other one: its file is deleted and one eviction is counted.
C16_Witness ==
    /\ ret.op = "Put"
    /\ ret.key = ActualDigest(<<"b">>)
    /\ c.maxSize = MaxSize + 1
    /\ c.ll = <<[Key |-> ActualDigest(<<"b">>), Size |-> 1],
                [Key |-> ActualDigest(<<"a">>), Size |-> 1]>>
    /\ c.hits = 1
    /\ c.evictions = 1
    /\ ~FileExists(files, ActualDigest(<<"a","b">>))
    /\ FileExists(files, ActualDigest(<<"a">>))

\* C19: a cache constructed on the directory after a Persist that returned
\* no error has the keys, the sizes, the current size and the order, most
\* recently used first, of the cache that persisted, and GetReader on each
\* key hits and returns the bytes put under it.
C19_RoundTrip ==
    [][(ret.op = "Persist" /\ ret.err = Nil /\ ret'.op = "NewLRUCache") =>
          /\ c'.cache = c.cache
          /\ c'.ll = c.ll
          /\ c'.size = c.size
          /\ \A key \in c.cache :
                LET r == GetReader(c', files', key)
                IN  /\ r.ok
                    /\ r.reader = files[key]
                    /\ ActualDigest(r.reader) = key
                    /\ r.size = Len(r.reader)]_vars

\* A cache loaded from a persistence file written after a hit had moved the
\* older of two blobs to the front.
C19_Witness ==
    /\ ret.op = "NewLRUCache"
    /\ FileExists(files, PersistenceName)
    /\ files[PersistenceName]
         = <<EncodeEntry([Key |-> ActualDigest(<<"b">>), Size |-> 1]),
             EncodeEntry([Key |-> ActualDigest(<<"a">>), Size |-> 1])>>
    /\ c.ll = <<[Key |-> ActualDigest(<<"a">>), Size |-> 1],
                [Key |-> ActualDigest(<<"b">>), Size |-> 1]>>
    /\ files[ActualDigest(<<"a">>)] = <<"a">>

\* C20: a Persist that follows a Persist that returned no error, with no
\* call between them, returns no error whatever its I/O would do, writes
\* nothing and leaves the directory as it is, the dirty flag being clear;
\* a Persist that returns an error leaves the dirty flag set and the
\* directory, with the persistence file of before, as it was.
C20_PersistIdempotent ==
    [][ret'.op = "Persist" =>
          /\ (ret.op = "Persist" /\ ret.err = Nil) =>
                /\ ret'.err = Nil
                /\ files' = files
                /\ c' = c
                /\ ~c'.persistDirty
          /\ ret'.err # Nil =>
                /\ c.persistDirty
                /\ c'.persistDirty
                /\ c' = c
                /\ files' = files]_vars

\* A Persist has failed at the rename: the persistence file is the one of
\* before, which lists an index that has changed since.
C20_Witness ==
    /\ ret.op = "Persist"
    /\ ret.err = "failed to rename persistence file"
    /\ c.persistDirty
    /\ FileExists(files, PersistenceName)
    /\ Len(files[PersistenceName]) = 2
    /\ Len(c.ll) = 1
    /\ ~FileExists(files, PersistTmpName)

----------------------------------------------------------------------------
(* A claim about GetReader's self-healing, checked under Spec *)

\* C18: a GetReader that finds its key in the index but cannot open the
\* file removes the entry, which lowers the current size by the entry's
\* size and leaves the other entries in their order, returns a miss with no
\* stream, and increments the miss counter and not the hit counter; every
\* GetReader increments exactly one of the two counters by one, the hit
\* counter iff it returns a hit.
C18_SelfHealingMiss ==
    [][ret'.op = "GetReader" =>
          LET k == ret'.key
              unopenable == /\ k \in c.cache
                            /\ ret'.fault = "open" \/ ~FileExists(files, k)
          IN  /\ \/ c'.hits = c.hits + 1 /\ c'.misses = c.misses
                 \/ c'.hits = c.hits /\ c'.misses = c.misses + 1
              /\ ret'.ok <=> c'.hits = c.hits + 1
              /\ c'.evictions = c.evictions
              /\ unopenable =>
                    /\ k \notin c'.cache
                    /\ c'.ll = SelectSeq(c.ll, LAMBDA e : e.Key # k)
                    /\ c'.size = c.size - c.ll[ElementOf(c.ll, k)].Size
                    /\ ~ret'.ok
                    /\ ret'.reader = <<>>
                    /\ ret'.size = 0
                    /\ c'.misses = c.misses + 1
                    /\ c'.hits = c.hits]_vars

\* The file of an indexed blob could not be opened: the entry is gone, the
\* other entry is still there, and one miss is counted.
C18_Witness ==
    /\ ret.op = "GetReader"
    /\ ret.fault = "open"
    /\ ~ret.ok
    /\ FileExists(files, ret.key)
    /\ ret.key \notin c.cache
    /\ Len(c.ll) = 1
    /\ c.size = 1
    /\ c.misses = 1
    /\ c.hits = 0

----------------------------------------------------------------------------
(* A claim about concurrent calls, checked under SpecConc *)

\* C17 as stated: whenever no call of the cache is in progress, every entry
\* of the index has a file named by its key whose length is the entry's
\* size, whatever the interleaving of the concurrent Puts, GetReaders,
\* Removes, Clears and evictions was.
C17_IndexedFilesExist ==
    (\A p \in DOMAIN procs : procs[p].pc = "idle") =>
        \A i \in 1..Len(c.ll) :
            /\ FileExists(files, c.ll[i].Key)
            /\ Len(files[c.ll[i].Key]) = c.ll[i].Size

\* C21: once main has returned, after Shutdown and PersistAll, the
\* persistence file lists the entries of the index, least recently used
\* first, and there is no file only when the index is empty.
C21_ShutdownPersistsFinal ==
    main.pc = "exited" =>
        LET entries == BackToFront(c.ll)
        IN  IF FileExists(files, PersistenceName)
            THEN files[PersistenceName]
                   = [i \in 1..Len(entries) |-> EncodeEntry(entries[i])]
            ELSE c.ll = <<>>

\* C23: with no call in progress, the index, the current size and the blob
\* files are what some one-at-a-time order of the calls leaves: a key is
\* indexed exactly when its file is there, with the size of the file, and
\* the current size is the sum of the sizes.
C23_PutLinearizable ==
    (\A p \in DOMAIN procs : procs[p].pc = "idle") =>
        /\ c.cache = DOMAIN files \ {PersistenceName}
        /\ \A i \in 1..Len(c.ll) : c.ll[i].Size = Len(files[c.ll[i].Key])
        /\ c.size = SumSizes(c.ll)

\* C25: a goroutine that holds c.mu, for writing or for reading, touches no
\* file before it has released it.
C25_NoIOUnderLock ==
    [][/\ \A p \in DOMAIN procs :
             ((mu.w = p \/ p \in mu.r) /\ procs'[p] # procs[p])
                 => files' = files
       /\ ("main" \in mu.r /\ main' # main) => files' = files]_vars

\* C27: with the dirty flag clear, no Persist running and no call in
\* progress, the persistence file lists the entries of the index, least
\* recently used first (no file: the index is empty).
C27_CleanMeansPersisted ==
    (/\ ~c.persistDirty
     /\ main.pc \in {"serving", "persist", "exited"}
     /\ \A p \in DOMAIN procs : procs[p].pc = "idle") =>
        IF FileExists(files, PersistenceName)
        THEN LET entries == BackToFront(c.ll)
             IN  files[PersistenceName]
                   = [i \in 1..Len(entries) |-> EncodeEntry(entries[i])]
        ELSE c.cache = {}

\* C29: with no call in progress, every file of the cache directory but the
\* persistence file is the file of an indexed key.
C29_NoUntrackedFile ==
    (\A p \in DOMAIN procs : procs[p].pc = "idle") =>
        \A name \in DOMAIN files \ {PersistenceName} : name \in c.cache
\* C30: no Unlock finds c.mu not held by its caller; a goroutine between
\* calls holds no lock, and main holds none outside Persist; main holds
\* c.mu only with persistMu held, which nobody takes with c.mu held; and
\* nobody sleeps for ever: a goroutine that holds c.mu can always take its
\* next step, and main with persistMu alone can take its next step unless
\* a goroutine holds c.mu for writing.
C30_LocksBalanced ==
    /\ mu.w # "misuse"
    /\ \A p \in DOMAIN procs :
          /\ procs[p].pc = "idle" => (mu.w # p /\ p \notin mu.r)
          /\ (main.pc # "exited" /\ (mu.w = p \/ p \in mu.r)) =>
                ENABLED (\/ LockPut(p) \/ LockEvict(p) \/ LockGetReader(p)
                         \/ LockRemove(p) \/ LockClear(p) \/ LockStats(p))
    /\ main.pc \in {"serving", "persist", "exited"} =>
          (mu.pm = "" /\ "main" \notin mu.r)
    /\ "main" \in mu.r => mu.pm = "main"
    /\ mu.pm = "main" => (mu.w \in DOMAIN procs \/ ENABLED LockPersist)

\* Put has evicted, deleted the victim's file and taken c.mu again, while
\* the other goroutine waits for c.mu in a Put of its own and Persist, with
\* persistMu, waits to read the list.
C30_Witness ==
    /\ procs["p1"].pc = "put_return"
    /\ Len(procs["p1"].toEvict) > 0
    /\ mu.w = "p1"
    /\ procs["p2"].pc = "put_lock"
    /\ main.pc = "persist_rlock"
    /\ mu.pm = "main"
\* C22: the GetCache calls for a host all return one instance, a cache is
\* stored at most once for a host, and the cache stored after a failed
\* construction has no directory and no size limit: GetReader on it misses
\* for every key and Put on it returns nil whatever its reader yields and
\* leaves the cache and the files as they are.
C22_OneCachePerHost ==
    /\ \A x \in cm.got : \A y \in cm.got : x[1] = y[1] => x[2] = y[2]
    /\ \A i \in 1..Len(cm.made) : \A j \in 1..Len(cm.made) :
          cm.made[i] = cm.made[j] => i = j
    /\ \A h \in DOMAIN cm.caches :
          cm.caches[h].failed =>
              /\ cm.caches[h].c = NewLRUCache(0, "")
              /\ \A key \in Keys :
                    /\ ~GetReader(cm.caches[h].c, files, key).ok
                    /\ \A data \in Bodies : \A fault \in Faults :
                          Put(cm.caches[h].c, files, key, data, key, fault)
                            = [c |-> cm.caches[h].c, files |-> files,
                               err |-> Nil]

\* Two first calls for the default registry's host both missed under RLock;
\* the first stored the cache of a failed construction and the second, with
\* the lock, is about to look again.
C22_Witness ==
    /\ cm.made = <<Host>>
    /\ cm.caches[Host].failed
    /\ cm.got = {<<Host, 1>>}
    /\ procs["p2"].pc = "gc_locked"
    /\ procs["p2"].key = Host

\* C24: no two hosts' caches use the same cache directory.
C24_OwnDirectory ==
    \A g \in DOMAIN cm.caches : \A h \in DOMAIN cm.caches :
        (g # h /\ cm.caches[g].c.cacheDir # "") =>
            cm.caches[g].c.cacheDir # cm.caches[h].c.cacheDir
\* C26: after the constructor, the index holds the entries of the lines
\* that decode and whose file is there with the recorded size, the last
\* such line in front, and no file is left whose line records another
\* size.
C26_LoadSkipsBadLines ==
    (ret.op = "NewLRUCache" /\ FileExists(files, PersistenceName)) =>
        LET lines == files[PersistenceName]
            Decodes(i) == Len(lines[i]) = 4
            Valid(i) == /\ Decodes(i)
                        /\ FileExists(files, lines[i][2])
                        /\ Len(files[lines[i][2]]) = lines[i][4]
            valid == SelectSeq([i \in 1..Len(lines) |-> i], Valid)
        IN  /\ c.ll = [i \in 1..Len(valid) |->
                         [Key |-> lines[valid[Len(valid) + 1 - i]][2],
                          Size |-> lines[valid[Len(valid) + 1 - i]][4]]]
            /\ c.cache = {lines[i][2] : i \in {j \in 1..Len(lines) : Valid(j)}}
            /\ c.size = SumSizes(c.ll)
            /\ \A i \in 1..Len(lines) :
                  (Decodes(i) /\ FileExists(files, lines[i][2])) => Valid(i)
\* C28: no step removes the entry of a key whose token has not expired (a
\* step may replace it).
C28_FreshTokenKept ==
    [][\A k \in DOMAIN tokenCache :
           now <= tokenCache[k].expiresAt => k \in DOMAIN tokenCache']_vars
\* C31: once the wrapped body is closed, the goroutine of the background
\* Put ends, and a Read that waits in its write to the pipe returns.
C31_TeeTerminates ==
    /\ (tee.active /\ tee.closed) ~> (tee.pc = "done")
    /\ (tee.rd = "write") ~> (tee.rd = "idle")

\* The body was read to its end through the pipe and closed, Put waited
\* for the index and the blob is cached.
C31_Witness ==
    /\ tee.active /\ tee.closed /\ tee.pc = "done" /\ tee.putErr = Nil
    /\ tee.eof /\ tee.digest \in c.cache
====
